---- MODULE Spec2Model ----
(***************************************************************************)
(* Room booking API: BookingsService (create / remove), the open-time      *)
(* window parser, and the transactional booking store.                     *)
(*                                                                         *)
(* Strings that the code parses (openTime) are sequences of characters.    *)
(* An ASCII character is the string of that one character; any other       *)
(* character (UTF-16 code unit) is the string "U+" followed by its four    *)
(* hexadecimal digits, so "U+20AC" is the euro sign.                       *)
(* Instants are minutes since a reference Sunday 00:00 UTC.                *)
(***************************************************************************)
EXTENDS Integers, Sequences, FiniteSets, TLC

\* ------------------------------------------------------------------ bounds
\* Highest booking id the store hands out (caps the id sequence).
MaxId == 2
\* Number of create calls the concurrent specification starts.
MaxCalls == 3
\* Highest number in the hour tokens given to the parser.
MaxHourNumber == 13
\* Highest value of the location id sequence at which a call of
\* LocationsService.create starts (locations 1 and 2 exist at first).
MaxLocationId == 3

\* ------------------------------------------------------------ characters
Digits == <<"0", "1", "2", "3", "4", "5", "6", "7", "8", "9">>
Upper == <<"A", "B", "C", "D", "E", "F", "G", "H", "I", "J", "K", "L", "M",
           "N", "O", "P", "Q", "R", "S", "T", "U", "V", "W", "X", "Y", "Z">>
Lower == <<"a", "b", "c", "d", "e", "f", "g", "h", "i", "j", "k", "l", "m",
           "n", "o", "p", "q", "r", "s", "t", "u", "v", "w", "x", "y", "z">>

Range(f) == {f[i] : i \in DOMAIN f}

\* \s of a JavaScript regular expression, which is also what trim() takes
\* off: tab, line feed, vertical tab, form feed, carriage return, blank,
\* U+00A0, U+1680, U+2000 .. U+200A, U+2028, U+2029, U+202F, U+205F, U+3000
\* and U+FEFF
WhiteSpace ==
  {"\t", "\n", "", "\f", "\r", " ", "U+00A0", "U+1680", "U+2000", "U+2001",
   "U+2002", "U+2003", "U+2004", "U+2005", "U+2006", "U+2007", "U+2008",
   "U+2009", "U+200A", "U+2028", "U+2029", "U+202F", "U+205F", "U+3000",
   "U+FEFF"}
\* characters that are no white space, no digit and no word character:
\* U+0085 (next line), U+00E9, U+200B (zero width space), U+20AC
OtherChars == {"U+0085", "U+00E9", "U+200B", "U+20AC"}
\* \d
DigitChars == Range(Digits)
\* \w
WordChars == Range(Upper) \cup Range(Lower) \cup DigitChars \cup {"_"}

\* String.prototype.toLowerCase / toUpperCase on one character: the ASCII
\* letters, and U+212A (Kelvin sign), the one other character whose lower
\* case is an ASCII letter; the parser compares the result with ASCII text
\* only, and takes the upper case of matched ASCII letters only
LowerChar(c) ==
  IF c \in Range(Upper) THEN Lower[CHOOSE i \in DOMAIN Upper : Upper[i] = c]
  ELSE IF c = "U+212A" THEN "k"
  ELSE c
UpperChar(c) ==
  IF c \in Range(Lower) THEN Upper[CHOOSE i \in DOMAIN Lower : Lower[i] = c] ELSE c
toLowerCase(s) == [i \in DOMAIN s |-> LowerChar(s[i])]
toUpperCase(s) == [i \in DOMAIN s |-> UpperChar(s[i])]

\* first index >= i of s whose character is not in S (Len(s)+1 when none)
SkipWhile(s, i, S) ==
  IF i > Len(s) THEN i
  ELSE CHOOSE j \in i..(Len(s) + 1) :
         /\ \A k \in i..(j - 1) : s[k] \in S
         /\ (j = Len(s) + 1 \/ s[j] \notin S)

\* last index <= i of s whose character is not in S (0 when none)
SkipBack(s, i, S) ==
  IF i < 1 THEN i
  ELSE CHOOSE j \in 0..i :
         /\ \A k \in (j + 1)..i : s[k] \in S
         /\ (j = 0 \/ s[j] \notin S)

\* String.prototype.trim
trim(s) ==
  LET a == SkipWhile(s, 1, WhiteSpace)
      b == SkipBack(s, Len(s), WhiteSpace)
  IN  IF a > b THEN <<>> ELSE SubSeq(s, a, b)

\* parseInt(digits, 10) of a non-empty digit string
DigitValue(c) == (CHOOSE i \in DOMAIN Digits : Digits[i] = c) - 1
parseInt(ds) ==
  LET value[k \in 0..Len(ds)] ==
        IF k = 0 THEN 0 ELSE 10 * value[k - 1] + DigitValue(ds[k])
  IN  value[Len(ds)]

\* s has the two letters a b at positions i, i+1, compared ignoring case
TwoLettersAt(s, i, a, b) ==
  /\ i + 1 <= Len(s)
  /\ LowerChar(s[i]) = a
  /\ LowerChar(s[i + 1]) = b

\* ------------------------------------------------------- open-time parser
Thrown == [tag |-> "error"]
AlwaysOpen == [tag |-> "null"]

DAY_MAP ==
  [d \in {<<"S", "u", "n">>, <<"M", "o", "n">>, <<"T", "u", "e">>,
          <<"W", "e", "d">>, <<"T", "h", "u">>, <<"F", "r", "i">>,
          <<"S", "a", "t">>} |->
     CASE d = <<"S", "u", "n">> -> 0
       [] d = <<"M", "o", "n">> -> 1
       [] d = <<"T", "u", "e">> -> 2
       [] d = <<"W", "e", "d">> -> 3
       [] d = <<"T", "h", "u">> -> 4
       [] d = <<"F", "r", "i">> -> 5
       [] d = <<"S", "a", "t">> -> 6]

To24_NoTwelveRule(hour, period) ==
  IF period = <<"P", "M">> THEN hour + 12 ELSE hour

\* the 12-hour to 24-hour rule of parseHour
To24(hour, period) ==
  IF period = <<"P", "M">> /\ hour # 12 THEN hour + 12
  ELSE IF period = <<"A", "M">> /\ hour = 12 THEN 0
  ELSE hour

\* t matched against /^(\d+)(AM|PM)$/i, e being the index after the digits;
\* -1 when the token does not match (the code throws)
HourOfToken(t, e) ==
  IF /\ e > 1
     /\ Len(t) = e + 1
     /\ (TwoLettersAt(t, e, "a", "m") \/ TwoLettersAt(t, e, "p", "m"))
  THEN To24(parseInt(SubSeq(t, 1, e - 1)), toUpperCase(SubSeq(t, e, e + 1)))
  ELSE -1

DigitsEnd(t) == SkipWhile(t, 1, DigitChars)

parseHour(raw) == HourOfToken(trim(raw), DigitsEnd(trim(raw)))

\* the places where the parts of the pattern start in s, scanning greedily:
\* <<first "to", end day, "(", AM/PM of the start hour, second "to",
\*   digits of the end hour, AM/PM of the end hour>>
Positions(s) ==
  LET pos[k \in 1..7] ==
        CASE k = 1 -> SkipWhile(s, 4, WhiteSpace)
          [] k = 2 -> SkipWhile(s, pos[1] + 2, WhiteSpace)
          [] k = 3 -> SkipWhile(s, pos[2] + 3, WhiteSpace)
          [] k = 4 -> SkipWhile(s, pos[3] + 1, DigitChars)
          [] k = 5 -> SkipWhile(s, pos[4] + 2, WhiteSpace)
          [] k = 6 -> SkipWhile(s, pos[5] + 2, WhiteSpace)
          [] k = 7 -> SkipWhile(s, pos[6], DigitChars)
  IN  pos

\* s matches the pattern with its parts at the places a
MatchesAt(s, a) ==
  /\ Len(s) >= 3
  /\ \A i \in 1..3 : s[i] \in WordChars
  /\ a[1] > 4
  /\ TwoLettersAt(s, a[1], "t", "o")
  /\ a[2] > a[1] + 2
  /\ a[2] + 2 <= Len(s)
  /\ \A i \in a[2]..(a[2] + 2) : s[i] \in WordChars
  /\ a[3] > a[2] + 3
  /\ a[3] <= Len(s)
  /\ s[a[3]] = "("
  /\ a[4] > a[3] + 1
  /\ (TwoLettersAt(s, a[4], "a", "m") \/ TwoLettersAt(s, a[4], "p", "m"))
  /\ a[5] > a[4] + 2
  /\ TwoLettersAt(s, a[5], "t", "o")
  /\ a[6] > a[5] + 2
  /\ a[7] > a[6]
  /\ (TwoLettersAt(s, a[7], "a", "m") \/ TwoLettersAt(s, a[7], "p", "m"))
  /\ Len(s) = a[7] + 2
  /\ s[Len(s)] = ")"

Captures(s, a) ==
  IF MatchesAt(s, a)
  THEN <<SubSeq(s, 1, 3), SubSeq(s, a[2], a[2] + 2),
         SubSeq(s, a[3] + 1, a[4] + 1), SubSeq(s, a[6], a[7] + 1)>>
  ELSE <<>>

\* normalized.match(/^(\w{3})\s+to\s+(\w{3})\s+\((\d+(?:AM|PM))\s+to\s+(\d+(?:AM|PM))\)$/i)
\* <<>> when there is no match, else the four captured groups.
MatchPattern(s) == Captures(s, Positions(s))

SentinelText == <<"a", "l", "w", "a", "y", "s", " ", "o", "p", "e", "n">>

\* the object parseOpenTime returns once both days are known
ParsedWindow(startDay, endDay, startHour, endHour) ==
  IF startHour = -1 \/ endHour = -1 THEN Thrown
  ELSE [tag |-> "parsed", startDay |-> startDay, endDay |-> endDay,
        startHour |-> startHour, endHour |-> endHour]

\* parseOpenTime after the pattern was applied
ParseMatch(match) ==
  IF match = <<>> THEN Thrown
  ELSE IF match[1] \notin DOMAIN DAY_MAP \/ match[2] \notin DOMAIN DAY_MAP
  THEN Thrown
  ELSE ParsedWindow(DAY_MAP[match[1]], DAY_MAP[match[2]],
                    parseHour(match[3]), parseHour(match[4]))

\* the sentinel compared without folding the case
ParseNormalized_CaseSensitive(normalized) ==
  IF normalized = SentinelText THEN AlwaysOpen
  ELSE ParseMatch(MatchPattern(normalized))

\* parseOpenTime after the trim
ParseNormalized(normalized) ==
  IF toLowerCase(normalized) = SentinelText THEN AlwaysOpen
  ELSE ParseMatch(MatchPattern(normalized))

parseOpenTime(openTime) == ParseNormalized(trim(openTime))

\* Date accessors: an instant is a number of minutes since a Sunday 00:00 UTC
MinutesPerDay == 24 * 60
getUTCDay(date) == (date \div MinutesPerDay) % 7
getUTCHours(date) == (date % MinutesPerDay) \div 60
getUTCMinutes(date) == date % 60

allowedDays_NoWrap(parsed) ==
  {d \in 0..6 : parsed.startDay <= d /\ d <= parsed.endDay}

\* the while(true) loop of isWithinOpenTime that fills allowedDays:
\* loop[k] is <<d, allowedDays, stopped>> after k passes through the body
AllowedDaysLoop(parsed) ==
  LET loop[k \in 0..7] ==
        IF k = 0 THEN [d |-> parsed.startDay, allowed |-> {}, stopped |-> FALSE]
        ELSE LET prev == loop[k - 1]
                 added == prev.allowed \cup {prev.d}
             IN  IF prev.stopped THEN prev
                 ELSE IF prev.d = parsed.endDay
                 THEN [d |-> prev.d, allowed |-> added, stopped |-> TRUE]
                 ELSE [d |-> (prev.d + 1) % 7, allowed |-> added,
                       stopped |-> Cardinality(added) >= 7]
  IN  loop

\* allowedDays once the loop is left
allowedDays(parsed) == AllowedDaysLoop(parsed)[7].allowed

HourWindow_Exclusive(totalMinutes, startMinutes, endMinutes) ==
  totalMinutes >= startMinutes /\ totalMinutes < endMinutes

HourWindow_WholeEndHour(totalMinutes, startMinutes, endMinutes) ==
  totalMinutes >= startMinutes /\ totalMinutes \div 60 <= endMinutes \div 60

HourWindow_AfterStart(totalMinutes, startMinutes, endMinutes) ==
  totalMinutes > startMinutes /\ totalMinutes <= endMinutes

\* a range whose end is before its start runs past midnight
HourWindow_Wraps(totalMinutes, startMinutes, endMinutes) ==
  IF startMinutes <= endMinutes
  THEN totalMinutes >= startMinutes /\ totalMinutes <= endMinutes
  ELSE totalMinutes >= startMinutes \/ totalMinutes <= endMinutes

\* hour window test on the minute of the day
HourWindow(totalMinutes, startMinutes, endMinutes) ==
  totalMinutes >= startMinutes /\ totalMinutes <= endMinutes

\* isWithinOpenTime after the parse
WithinParsed(parsed, date) ==
  IF parsed.tag = "error" THEN "throw"
  ELSE IF parsed.tag = "null" THEN "true"
  ELSE IF getUTCDay(date) \notin allowedDays(parsed) THEN "false"
  ELSE IF HourWindow(getUTCHours(date) * 60 + getUTCMinutes(date),
                     parsed.startHour * 60, parsed.endHour * 60)
       THEN "true" ELSE "false"

\* "true" / "false", or "throw" when parseOpenTime throws
isWithinOpenTime(openTime, date) == WithinParsed(parseOpenTime(openTime), date)

\* ---------------------------------------------------------------- inputs
At(day, hour, minute) == day * MinutesPerDay + hour * 60 + minute

\* Friday 17:00, Saturday 10:00, then Sunday 10:00, Monday 09:00 and
\* Monday 10:00 of the following week
Fri1700 == At(5, 17, 0)
Sat1000 == At(6, 10, 0)
Sun1000 == At(7, 10, 0)
Mon0900 == At(8, 9, 0)
Mon1000 == At(8, 10, 0)
Instants == {Fri1700, Sat1000, Sun1000, Mon0900, Mon1000}
\* instants of the requests of the sequential / the concurrent specification
SeqInstants == {Fri1700, Sat1000, Sun1000, Mon1000}
ConcInstants == {Fri1700, Mon0900, Mon1000}

\* a nullable varchar column: null, or a text
NullText == [null |-> TRUE, text |-> <<>>]
Text(s) == [null |-> FALSE, text |-> s]

MonToFri9to6 ==
  <<"M", "o", "n", " ", "t", "o", " ", "F", "r", "i", " ",
    "(", "9", "A", "M", " ", "t", "o", " ", "6", "P", "M", ")">>
GarbageText == <<"G", "a", "r", "b", "a", "g", "e">>

\* locationNumber of the locations that exist, and one that does not
LocationNumbers == {1, 2, 3}
Departments == {"EFM", "FSS"}
AttendeeCounts == {1, 2}
Procs == {1, 2}

Dto(locationNumber, department, attendees, startTime, endTime) ==
  [locationNumber |-> locationNumber, department |-> department,
   attendees |-> attendees, startTime |-> startTime, endTime |-> endTime]

Dtos ==
  [locationNumber : LocationNumbers, department : Departments,
   attendees : AttendeeCounts, startTime : SeqInstants, endTime : SeqInstants]

\* one request per validation failure: no such location, empty interval,
\* department not served, too many attendees, start on a Saturday, and a
\* department whose openTime does not parse
FailingDtos ==
  {Dto(3, "EFM", 1, Fri1700, Mon0900), Dto(1, "EFM", 1, Mon0900, Mon0900),
   Dto(1, "FSS", 1, Fri1700, Mon0900), Dto(1, "EFM", 2, Fri1700, Mon0900),
   Dto(1, "EFM", 1, Sat1000, Mon0900), Dto(2, "FSS", 1, Fri1700, Mon0900)}

\* requests of the concurrent specification: the failing ones, and valid
\* ones of one department and one attendee inside the Mon-Fri window
ConcDtos ==
  FailingDtos \cup
  {d \in [locationNumber : {1, 2}, department : {"EFM"}, attendees : {1},
          startTime : ConcInstants, endTime : ConcInstants] :
     d.startTime < d.endTime}

\* ---------------------------------------------------- inputs of the parser
\* the keys of DAY_MAP by day number (Sunday = 0)
DayNames ==
  <<<<"S", "u", "n">>, <<"M", "o", "n">>, <<"T", "u", "e">>, <<"W", "e", "d">>,
    <<"T", "h", "u">>, <<"F", "r", "i">>, <<"S", "a", "t">>>>
DayName(d) == DayNames[d + 1]

\* decimal text of a number below 100
NumText(n) ==
  IF n < 10 THEN <<Digits[n + 1]>>
  ELSE <<Digits[(n \div 10) + 1], Digits[(n % 10) + 1]>>

Periods == {<<"A", "M">>, <<"P", "M">>, <<"a", "m">>, <<"p", "m">>}
HourToken(n, period) == NumText(n) \o period

\* hour tokens "0AM" .. "<MaxHourNumber>pm", and tokens parseHour rejects
\* (among them "9AM" with a character that trim() leaves at an end)
HourTokens ==
  {HourToken(n, period) : n \in 0..MaxHourNumber, period \in Periods}
BadHourTokens ==
  {<<>>, <<"9">>, <<"A", "M">>, <<"9", "X", "M">>, <<"9", ":", "3", "0", "A", "M">>,
   <<"9", "A", "M", "!">>, <<"9", " ", "A", "M">>}
  \cup {HourToken(9, <<"A", "M">>) \o <<c>> : c \in OtherChars}
  \cup {<<c>> \o HourToken(9, <<"A", "M">>) : c \in OtherChars}
\* raw arguments of parseHour: the tokens, some with blanks around them,
\* and one token between two characters of each kind of white space
RawHours ==
  HourTokens \cup BadHourTokens \cup
  {<<" ">> \o HourToken(n, <<"P", "M">>) \o <<" ">> : n \in 0..MaxHourNumber}
  \cup {<<ws>> \o HourToken(9, <<"A", "M">>) \o <<ws>> : ws \in WhiteSpace}

\* "<day> to <day> (<hour> to <hour>)"
WindowText(startDay, endDay, startToken, endToken) ==
  startDay \o <<" ", "t", "o", " ">> \o endDay \o <<" ", "(">> \o startToken
  \o <<" ", "t", "o", " ">> \o endToken \o <<")">>

AM == <<"A", "M">>
PM == <<"P", "M">>

\* every day range with the hours 9AM to 6PM
DayRangeTexts ==
  {WindowText(DayName(s), DayName(e), HourToken(9, AM), HourToken(6, PM)) :
     s \in 0..6, e \in 0..6}

\* Mon to Fri with other hour ranges: midnight to noon, noon to 11PM, a
\* range whose end is before its start, lower-case periods
HourRangeTexts ==
  {WindowText(DayName(1), DayName(5), HourToken(12, AM), HourToken(12, PM)),
   WindowText(DayName(1), DayName(5), HourToken(12, PM), HourToken(11, PM)),
   WindowText(DayName(1), DayName(5), HourToken(10, PM), HourToken(2, AM)),
   WindowText(DayName(1), DayName(5), HourToken(6, PM), HourToken(9, AM)),
   WindowText(DayName(1), DayName(5), HourToken(9, <<"a", "m">>),
              HourToken(6, <<"p", "m">>))}

\* windows whose hour tokens carry a number outside 1..12: "0AM", "0PM",
\* "<MaxHourNumber>AM" and "<MaxHourNumber>PM"
OutOfRangeTexts ==
  {WindowText(DayName(1), DayName(5), HourToken(0, AM), HourToken(6, PM)),
   WindowText(DayName(1), DayName(5), HourToken(9, AM), HourToken(0, PM)),
   WindowText(DayName(1), DayName(5), HourToken(MaxHourNumber, AM),
              HourToken(6, PM)),
   WindowText(DayName(1), DayName(5), HourToken(9, AM),
              HourToken(MaxHourNumber, PM))}

\* the sentinel in three spellings, and followed by a character of each
\* kind of white space
SentinelTexts ==
  {<<"A", "l", "w", "a", "y", "s", " ", "o", "p", "e", "n">>,
   <<"A", "L", "W", "A", "Y", "S", " ", "O", "P", "E", "N">>,
   <<" ", " ">> \o SentinelText \o <<" ">>}
  \cup {SentinelText \o <<ws>> : ws \in WhiteSpace}

\* a valid window with blanks around it and several blanks inside
SpacedText ==
  <<" ">> \o DayName(1) \o <<" ", " ", "t", "o", "\t">> \o DayName(5)
  \o <<" ", " ", "(">> \o HourToken(9, AM) \o <<" ", "t", "o", " ", " ">>
  \o HourToken(6, PM) \o <<")", " ">>

\* 'Mon to Fri (9AM to 6PM)' with each kind of white space between the
\* words and at the end
WhiteSpaceTexts ==
  {DayName(1) \o <<ws, "t", "o", ws>> \o DayName(5) \o <<ws, "(">>
   \o HourToken(9, AM) \o <<ws, "t", "o", ws>> \o HourToken(6, PM)
   \o <<")", ws>> : ws \in WhiteSpace}

\* texts parseOpenTime rejects: empty, free text, no parentheses, a dash
\* between the hours, an unknown day, lower-case and upper-case days, and
\* a character that is no white space after the sentinel, between the
\* words, and between the hours
MalformedTexts ==
  {<<>>, GarbageText,
   DayName(1) \o <<" ", "t", "o", " ">> \o DayName(5) \o <<" ">>
     \o HourToken(9, AM) \o <<" ", "t", "o", " ">> \o HourToken(6, PM),
   DayName(1) \o <<" ", "t", "o", " ">> \o DayName(5) \o <<" ", "(">>
     \o HourToken(9, AM) \o <<"-">> \o HourToken(6, PM) \o <<")">>,
   WindowText(<<"X", "y", "z">>, DayName(5), HourToken(9, AM), HourToken(6, PM)),
   WindowText(toLowerCase(DayName(1)), toLowerCase(DayName(5)),
              HourToken(9, AM), HourToken(6, PM)),
   WindowText(toUpperCase(DayName(1)), DayName(5),
              HourToken(9, AM), HourToken(6, PM))}
  \cup {SentinelText \o <<c>> : c \in OtherChars}
  \cup {DayName(1) \o <<c, "t", "o", " ">> \o DayName(5) \o <<" ", "(">>
        \o HourToken(9, AM) \o <<" ", "t", "o", " ">> \o HourToken(6, PM)
        \o <<")">> : c \in OtherChars}
  \cup {DayName(1) \o <<" ", "t", "o", " ">> \o DayName(5) \o <<" ", "(">>
        \o HourToken(9, AM) \o <<c, "t", "o", " ">> \o HourToken(6, PM)
        \o <<")">> : c \in OtherChars}

OpenTimeTexts ==
  DayRangeTexts \cup HourRangeTexts \cup OutOfRangeTexts \cup SentinelTexts
  \cup {SpacedText} \cup WhiteSpaceTexts \cup MalformedTexts

\* the hours and minutes the dates of the probes fall on
ProbeClock ==
  {<<0, 0>>, <<2, 0>>, <<8, 59>>, <<9, 0>>, <<10, 0>>, <<12, 0>>, <<17, 59>>,
   <<18, 0>>, <<18, 1>>, <<19, 0>>, <<22, 0>>, <<23, 0>>, <<23, 59>>}
\* every day of one week (Sunday .. Saturday) at these times
ProbeDates == {At(7 + d, c[1], c[2]) : d \in 0..6, c \in ProbeClock}

\* ----------------------------------------------------------------- state
VARIABLES
  locations,          \* ids of the rows of table location
  departmentConfigs,  \* rows of table location_department
  bookings,           \* committed rows of table booking
  nextId,             \* next value of the booking id sequence
  calls,              \* per worker: the call it runs or last ran
  started,            \* calls started (bounded in SpecC and SpecL)
  nextLocationId,     \* next value of the location id sequence
  locationFields,     \* per location: its locationNumber and parent columns
  probe,              \* a call of a function of the parser, and what it gave
  stable              \* history: per worker, its current call is a create
                      \* that the store did not fail, and no location,
                      \* config or booking changed since the call began

vars ==
  <<locations, departmentConfigs, bookings, nextId, calls, started,
    nextLocationId, locationFields, probe, stable>>

NoBooking ==
  [id |-> 0, locationId |-> 0, department |-> "", attendees |-> 0,
   startTime |-> 0, endTime |-> 0]
NoConfig ==
  [locationId |-> 0, department |-> "", capacity |-> 0, openTime |-> NullText]
NoDto ==
  [locationNumber |-> 0, department |-> "", attendees |-> 0,
   startTime |-> 0, endTime |-> 0]

\* what a call ended with: kind "Booking" is success, the rest are the
\* exception classes; msg is the message head, code the driver error code
Result(kind, msg, code, saved) ==
  [kind |-> kind, msg |-> msg, code |-> code, saved |-> saved]
NoResult == Result("", "", "", NoBooking)

BadRequest(msg) == Result("BadRequestException", msg, "", NoBooking)
NotFound(msg) == Result("NotFoundException", msg, "", NoBooking)
Conflict(msg) == Result("ConflictException", msg, "", NoBooking)
QueryFailed(code) == Result("QueryFailedError", "", code, NoBooking)

\* an optional property of a dto: undefined, or a value
Undefined(zero) == [defined |-> FALSE, value |-> zero]
Defined(value) == [defined |-> TRUE, value |-> value]

\* CreateLocationDepartmentDto / UpdateLocationDepartmentDto without the
\* department
NoDeptDto == [capacity |-> Undefined(0), openTime |-> Undefined(<<>>)]

\* op is "create" or "remove" (BookingsService), or "addDepartment",
\* "updateDepartment", "removeDepartment", "removeLocation",
\* "createLocation", "updateLocation" (LocationsService); dto is the argument of create and id that of remove;
\* department and deptDto are the arguments of the department calls;
\* locationId and deptConfig are the locals of the call; stale says that the
\* row the entity deptConfig was loaded from has been deleted since;
\* loaded is the row that save read for the entity deptConfig;
\* booking is the row create inserted and has not committed yet;
\* locationDto is the argument of LocationsService.create (parentId 0
\* for none);
\* concurrent and conflict are the store's record of the open transaction
\* and txError the code of the error the transaction was rejected with
IdleCall ==
  [op |-> "", pc |-> "idle", dto |-> NoDto, id |-> 0, locationId |-> 0,
   deptConfig |-> NoConfig, concurrent |-> FALSE, conflict |-> FALSE,
   txError |-> "", result |-> NoResult, booking |-> NoBooking,
   locationDto |-> [locationNumber |-> 0, parentId |-> 0],
   department |-> "", deptDto |-> NoDeptDto, stale |-> FALSE,
   loaded |-> NoConfig]

\* fn is the function called ("" for none), raw / openTime / date its
\* arguments, done whether it returned, and hour / parsed / within what
\* parseHour / parseOpenTime / isWithinOpenTime gave
NoProbe ==
  [fn |-> "", raw |-> <<>>, openTime |-> <<>>, date |-> 0, done |-> FALSE,
   hour |-> 0, parsed |-> AlwaysOpen, within |-> ""]

\* A store filled through the API of the LocationsService: location 1,
\* its child location 2, and three department configs, one of them with
\* an openTime that addDepartment accepted and the parser rejects.
Init ==
  /\ locations = {1, 2}
  /\ departmentConfigs =
       {[locationId |-> 1, department |-> "EFM", capacity |-> 1,
         openTime |-> Text(MonToFri9to6)],
        [locationId |-> 2, department |-> "EFM", capacity |-> 2,
         openTime |-> NullText],
        [locationId |-> 2, department |-> "FSS", capacity |-> 1,
         openTime |-> Text(GarbageText)]}
  /\ bookings = {}
  /\ nextId = 1
  /\ calls = [p \in Procs |-> IdleCall]
  /\ started = 0
  /\ nextLocationId = 3
  /\ locationFields =
       [l \in {1, 2} |-> [locationNumber |-> l, parentId |-> l - 1]]
  /\ probe = NoProbe
  /\ stable = [p \in Procs |-> FALSE]

\* ------------------------------------------------------ BookingsService
Truthy_NullToo(openTime) == TRUE

\* if (deptConfig.openTime): null and the empty string are falsy
Truthy(openTime) == ~openTime.null /\ openTime.text # <<>>

TemporalCheckFails_Strict(startDate, endDate) == startDate > endDate

TemporalCheckFails_Never(startDate, endDate) == FALSE

\* if (startDate >= endDate) throw
TemporalCheckFails(startDate, endDate) == startDate >= endDate

CapacityExceeded_AtLeast(attendees, capacity) == attendees >= capacity

\* the ids the sequence has handed out counted against the capacity
CapacityExceeded_CountsIds(attendees, capacity) ==
  attendees + (nextId - 1) > capacity

\* if (dto.attendees > deptConfig.capacity) throw
CapacityExceeded(attendees, capacity) == attendees > capacity

OpenTimeMessage_EndFirst(startOk, endOk) ==
  IF startOk = "throw" \/ endOk = "throw" THEN "Invalid openTime format"
  ELSE IF endOk = "false" THEN "Booking end time is outside open hours"
  ELSE IF startOk = "false" THEN "Booking start time is outside open hours"
  ELSE ""

OpenTimeMessage_StartOnly(startOk, endOk) ==
  IF startOk = "throw" \/ endOk = "throw" THEN "Invalid openTime format"
  ELSE IF startOk = "false" THEN "Booking start time is outside open hours"
  ELSE ""

\* the throws of the open time block, from what the two calls gave
OpenTimeMessage(startOk, endOk) ==
  IF startOk = "throw" \/ endOk = "throw" THEN "Invalid openTime format"
  ELSE IF startOk = "false" THEN "Booking start time is outside open hours"
  ELSE IF endOk = "false" THEN "Booking end time is outside open hours"
  ELSE ""

OpenTimeCheck_ThrowPasses(openTime, startDate, endDate) ==
  IF ~Truthy(openTime) THEN ""
  ELSE IF isWithinOpenTime(openTime.text, startDate) = "throw" THEN ""
  ELSE OpenTimeMessage(isWithinOpenTime(openTime.text, startDate),
                       isWithinOpenTime(openTime.text, endDate))

\* the open time block of create: "" when it passes, else the message
OpenTimeCheck(openTime, startDate, endDate) ==
  IF ~Truthy(openTime) THEN ""
  ELSE OpenTimeMessage(isWithinOpenTime(openTime.text, startDate),
                       isWithinOpenTime(openTime.text, endDate))

OverlapWhere_EndOnly(booking, locationId, startDate, endDate) ==
  /\ booking.locationId = locationId
  /\ booking.startTime < endDate
  /\ booking.endTime > endDate

OverlapWhere_Closed(booking, locationId, startDate, endDate) ==
  /\ booking.locationId = locationId
  /\ booking.startTime <= endDate
  /\ booking.endTime >= startDate

\* the WHERE clause of the overlap query
OverlapWhere(booking, locationId, startDate, endDate) ==
  /\ booking.locationId = locationId
  /\ booking.startTime < endDate
  /\ booking.endTime > startDate

findFlatByNumber_NeverMissing(locationNumber) == {locationNumber}

\* await locationsService.findFlatByNumber(dto.locationNumber): the ids of
\* the matching location (empty: the call rejects with NotFoundException)
findFlatByNumber(locationNumber) ==
  {l \in locations : locationFields[l].locationNumber = locationNumber}

Finish(p, result) ==
  calls' = [calls EXCEPT ![p].pc = "done", ![p].result = result]

\* create, from the call to the point where it awaits the config lookup:
\* the location lookup and the temporal sanity check
CreateFindLocation(p, dto, counted) ==
  /\ calls[p].pc \in {"idle", "done"}
  /\ nextId <= MaxId
  /\ started' = IF counted THEN started + 1 ELSE started
  /\ LET fresh == [IdleCall EXCEPT !.op = "create", !.dto = dto]
     IN  IF findFlatByNumber(dto.locationNumber) = {}
         THEN calls' = [calls EXCEPT ![p] =
                [fresh EXCEPT !.pc = "done",
                              !.result = NotFound("Location not found")]]
         ELSE IF TemporalCheckFails(dto.startTime, dto.endTime)
         THEN calls' = [calls EXCEPT ![p] =
                [fresh EXCEPT !.pc = "done",
                   !.result = BadRequest("startTime must be before endTime")]]
         ELSE \E l \in findFlatByNumber(dto.locationNumber) :
                calls' = [calls EXCEPT ![p] =
                  [fresh EXCEPT !.pc = "findConfig", !.locationId = l]]
  /\ UNCHANGED <<probe, nextLocationId, locationFields, locations, departmentConfigs, bookings, nextId>>

ConfigChecks_WindowFirst(dto, deptConfig) ==
  IF OpenTimeCheck(deptConfig.openTime, dto.startTime, dto.endTime) # ""
  THEN OpenTimeCheck(deptConfig.openTime, dto.startTime, dto.endTime)
  ELSE IF CapacityExceeded(dto.attendees, deptConfig.capacity)
  THEN "Capacity exceeded"
  ELSE ""

\* the checks of create on the config row it found: "" when they pass,
\* else the message of the BadRequestException
ConfigChecks(dto, deptConfig) ==
  IF CapacityExceeded(dto.attendees, deptConfig.capacity)
  THEN "Capacity exceeded"
  ELSE OpenTimeCheck(deptConfig.openTime, dto.startTime, dto.endTime)

AfterConfigChecks(p, deptConfig, message) ==
  IF message # ""
  THEN calls' = [calls EXCEPT ![p].pc = "done", ![p].deptConfig = deptConfig,
                   ![p].result = BadRequest(message)]
  ELSE calls' = [calls EXCEPT ![p].pc = "tx", ![p].deptConfig = deptConfig]

FindConfig_AnyDepartment(locationId, department) ==
  {r \in departmentConfigs : r.locationId = locationId}

\* locationDepartmentRepo.findOne({where: {locationId, department}})
FindConfig(locationId, department) ==
  {r \in departmentConfigs :
     r.locationId = locationId /\ r.department = department}

\* create, from the config lookup to the point where it opens the
\* transaction: scope, capacity and open time checks
CreateFindConfig(p) ==
  /\ calls[p].pc = "findConfig"
  /\ IF FindConfig(calls[p].locationId, calls[p].dto.department) = {}
     THEN Finish(p, BadRequest("does not serve department"))
     ELSE \E deptConfig \in
               FindConfig(calls[p].locationId, calls[p].dto.department) :
            AfterConfigChecks(p, deptConfig,
                              ConfigChecks(calls[p].dto, deptConfig))
  /\ UNCHANGED <<probe, nextLocationId, locationFields, locations, departmentConfigs, bookings, nextId, started>>

\* the capacity of the config stored as the attendees of the booking
NewBooking_StoresCapacity(c, id) ==
  [id |-> id, locationId |-> c.locationId, department |-> c.dto.department,
   attendees |-> c.deptConfig.capacity, startTime |-> c.dto.startTime,
   endTime |-> c.dto.endTime]

\* bookingRepo.create({...}) with the id the sequence assigns
NewBooking(c, id) ==
  [id |-> id, locationId |-> c.locationId, department |-> c.dto.department,
   attendees |-> c.dto.attendees, startTime |-> c.dto.startTime,
   endTime |-> c.dto.endTime]

TxQuery_InsertFirst(p) ==
  /\ calls[p].pc = "tx"
  /\ nextId' = nextId + 1
  /\ bookings' = bookings \cup {NewBooking(calls[p], nextId)}
  /\ IF \E b \in bookings :
          OverlapWhere(b, calls[p].locationId, calls[p].dto.startTime,
                       calls[p].dto.endTime)
     THEN Finish(p, Conflict("is already booked"))
     ELSE calls' = [calls EXCEPT ![p].pc = "done",
            ![p].result = Result("Booking", "", "", NewBooking(calls[p], nextId))]
  /\ UNCHANGED <<probe, nextLocationId, locationFields, locations, departmentConfigs, started>>

\* the transaction's overlap query (its first statement, which takes the
\* SERIALIZABLE snapshot) and the throw when a row comes back
TxQuery(p) ==
  /\ calls[p].pc = "tx"
  /\ LET c == calls[p]
         overlapping == {b \in bookings :
            OverlapWhere(b, c.locationId, c.dto.startTime, c.dto.endTime)}
     IN  IF overlapping # {}
         THEN Finish(p, Conflict("is already booked"))
         ELSE calls' = [calls EXCEPT ![p].pc = "save",
                          ![p].concurrent = FALSE, ![p].conflict = FALSE]
  /\ UNCHANGED <<probe, nextLocationId, locationFields, locations, departmentConfigs, bookings, nextId, started>>

\* a transaction that is open (snapshot taken, not yet committed) when
\* another one commits has run concurrently with it; it has a read-write
\* conflict with it when the committed row matches its overlap query
AfterCommitOf(p, row) ==
  [q \in Procs |->
     IF q = p THEN [calls[p] EXCEPT !.pc = "done",
                      !.result = Result("Booking", "", "", row)]
     ELSE IF calls[q].pc \in {"save", "commit"}
     THEN [calls[q] EXCEPT !.concurrent = TRUE,
             !.conflict = calls[q].conflict \/
                OverlapWhere(row, calls[q].locationId,
                             calls[q].dto.startTime, calls[q].dto.endTime)]
     ELSE calls[q]]

ForeignKeyHolds_Unchecked(locationId) == TRUE

\* the foreign key of booking.locationId and location_department.locationId
ForeignKeyHolds(locationId) == locationId \in locations

\* manager.save(booking): the INSERT takes the next id of the sequence; the
\* row is not visible to other calls before the commit
TxSave(p) ==
  /\ calls[p].pc = "save"
  /\ ~calls[p].conflict
  /\ ForeignKeyHolds(calls[p].locationId)
  /\ calls' = [calls EXCEPT ![p].pc = "commit",
                   ![p].booking = NewBooking(calls[p], nextId)]
  /\ nextId' = nextId + 1
  /\ UNCHANGED <<probe, nextLocationId, locationFields, locations, departmentConfigs, bookings,
                 started>>

\* the callback returns and the transaction commits: the row is persisted
TxCommit(p) ==
  /\ calls[p].pc = "commit"
  /\ ~calls[p].conflict
  /\ bookings' = bookings \cup {calls[p].booking}
  /\ calls' = AfterCommitOf(p, calls[p].booking)
  /\ UNCHANGED <<probe, nextLocationId, locationFields, locations, departmentConfigs, nextId,
                 started>>

OnTransactionError_AllConflict(code) == Conflict("concurrent conflict")

\* what create does with an error the transaction rejects with
OnTransactionError(code) == QueryFailed(code)

\* the store aborts the transaction with a serialization failure: it does
\* so when the transaction has a read-write conflict with a concurrent
\* committed one, and may do so whenever one ran concurrently; an INSERT
\* that is rejected has taken its id from the sequence
TxSerializationFailure(p) ==
  /\ calls[p].pc \in {"save", "commit"}
  /\ calls[p].concurrent
  /\ calls' = [calls EXCEPT ![p].pc = "done", ![p].txError = "40001",
                   ![p].result = OnTransactionError("40001")]
  /\ nextId' = IF calls[p].pc = "save" THEN nextId + 1 ELSE nextId
  /\ UNCHANGED <<probe, nextLocationId, locationFields, locations, departmentConfigs, bookings, started>>

\* the transaction fails with another store error (code 23505 or 57014):
\* at the query, at the INSERT (after the sequence gave the id) or at the
\* commit
OtherErrorCodes == {"23505", "57014"}
TxStoreError(p, code) ==
  /\ calls[p].pc \in {"tx", "save", "commit"}
  /\ calls' = [calls EXCEPT ![p].pc = "done", ![p].txError = code,
                   ![p].result = OnTransactionError(code)]
  /\ nextId' = IF calls[p].pc = "save" THEN nextId + 1 ELSE nextId
  /\ UNCHANGED <<probe, nextLocationId, locationFields, locations, departmentConfigs, bookings, started>>

\* remove(id): the findOne and the throw when nothing is found
RemoveFind(p, id) ==
  /\ calls[p].pc \in {"idle", "done"}
  /\ LET fresh == [IdleCall EXCEPT !.op = "remove", !.id = id]
     IN  IF \E b \in bookings : b.id = id
         THEN calls' = [calls EXCEPT ![p] = [fresh EXCEPT !.pc = "remove"]]
         ELSE calls' = [calls EXCEPT ![p] =
                [fresh EXCEPT !.pc = "done",
                              !.result = NotFound("Booking not found")]]
  /\ UNCHANGED <<probe, nextLocationId, locationFields, locations, departmentConfigs, bookings, nextId, started>>

\* the call returns without deleting the row
RemoveDelete_KeepsRow(p) ==
  /\ calls[p].pc = "remove"
  /\ bookings' = bookings
  /\ Finish(p, Result("void", "", "", NoBooking))
  /\ UNCHANGED <<probe, nextLocationId, locationFields, locations, departmentConfigs, nextId, started>>

\* remove(id): bookingRepo.remove(booking)
RemoveDelete(p) ==
  /\ calls[p].pc = "remove"
  /\ bookings' = {b \in bookings : b.id # calls[p].id}
  /\ Finish(p, Result("void", "", "", NoBooking))
  /\ UNCHANGED <<probe, nextLocationId, locationFields, locations, departmentConfigs, nextId, started>>

\* the insert of the booking is rejected because its location is gone:
\* with a foreign key violation, or with a serialization failure when the
\* location was deleted after the transaction took its snapshot
ForeignKeyErrorCodes == {"23503", "40001"}
TxForeignKeyViolation(p, code) ==
  /\ calls[p].pc = "save"
  /\ ~ForeignKeyHolds(calls[p].locationId)
  /\ calls' = [calls EXCEPT ![p].pc = "done", ![p].txError = code,
                   ![p].result = OnTransactionError(code)]
  /\ nextId' = nextId + 1
  /\ UNCHANGED <<probe, nextLocationId, locationFields, locations, departmentConfigs, bookings, started>>

\* ----------------------------------------------------- LocationsService
\* the parent column of the row of location l, 0 for null
ParentOf(l) == IF l \in locations THEN locationFields[l].parentId ELSE 0

\* the location l and its descendants
RECURSIVE InSubtree(_, _)
InSubtree(l, root) ==
  IF l = 0 THEN FALSE
  ELSE IF l = root THEN TRUE
  ELSE InSubtree(ParentOf(l), root)

Subtree(root) == {l \in locations : InSubtree(l, root)}

\* the first await of a department call or of remove:
\* locationRepo.findOne({where: {locationNumber}}) and the throw
FindLocation(p, op, locationNumber, department, deptDto, nextPc) ==
  /\ calls[p].pc \in {"idle", "done"}
  /\ started' = started + 1
  /\ LET fresh == [IdleCall EXCEPT !.op = op, !.department = department,
                                   !.deptDto = deptDto]
     IN  IF findFlatByNumber(locationNumber) = {}
         THEN calls' = [calls EXCEPT ![p] =
                [fresh EXCEPT !.pc = "done",
                              !.result = NotFound("Location not found")]]
         ELSE \E l \in findFlatByNumber(locationNumber) :
                calls' = [calls EXCEPT ![p] =
                  [fresh EXCEPT !.pc = nextPc, !.locationId = l]]
  /\ UNCHANGED <<probe, nextLocationId, locationFields, locations, departmentConfigs, bookings, nextId>>

InsertError_NoUnique(row) ==
  IF ~ForeignKeyHolds(row.locationId) THEN "23503" ELSE ""

\* the error code an INSERT into location_department is rejected with, ""
\* when it is accepted: the foreign key to location and the unique
\* constraint on (locationId, department)
InsertError(row) ==
  IF ~ForeignKeyHolds(row.locationId) THEN "23503"
  ELSE IF FindConfig(row.locationId, row.department) # {} THEN "23505"
  ELSE ""

\* locationDepartmentRepo.save of an entity that has no row
InsertConfig(p, row) ==
  IF InsertError(row) # ""
  THEN /\ calls' = [calls EXCEPT ![p].pc = "done",
                      ![p].txError = InsertError(row),
                      ![p].result = QueryFailed(InsertError(row))]
       /\ UNCHANGED departmentConfigs
  ELSE /\ departmentConfigs' = departmentConfigs \cup {row}
       /\ calls' = [calls EXCEPT ![p].pc = "done", ![p].stale = FALSE,
                      ![p].deptConfig = row,
                      ![p].result = Result("LocationDepartment", "", "", NoBooking)]

AddDepartmentFindLocation(p, locationNumber, department, deptDto) ==
  FindLocation(p, "addDepartment", locationNumber, department, deptDto,
               "addFindConfig")

\* addDepartment: the lookup of an existing row and the ConflictException
AddDepartmentFindConfig(p) ==
  /\ calls[p].pc = "addFindConfig"
  /\ IF FindConfig(calls[p].locationId, calls[p].department) # {}
     THEN Finish(p, Conflict("is already registered"))
     ELSE calls' = [calls EXCEPT ![p].pc = "addSave"]
  /\ UNCHANGED <<probe, nextLocationId, locationFields, locations, departmentConfigs, bookings, nextId, started>>

\* locationDepartmentRepo.create({...}): openTime is dto.openTime ?? null
NewConfig(c) ==
  [locationId |-> c.locationId, department |-> c.department,
   capacity |-> c.deptDto.capacity.value,
   openTime |-> IF c.deptDto.openTime.defined
                THEN Text(c.deptDto.openTime.value) ELSE NullText]

\* addDepartment: locationDepartmentRepo.save(deptConfig)
AddDepartmentSave(p) ==
  /\ calls[p].pc = "addSave"
  /\ InsertConfig(p, NewConfig(calls[p]))
  /\ UNCHANGED <<probe, nextLocationId, locationFields, locations, bookings, nextId, started>>

UpdateDepartmentFindLocation(p, locationNumber, department, deptDto) ==
  FindLocation(p, "updateDepartment", locationNumber, department, deptDto,
               "updateFindConfig")

\* the assignments of updateDepartment to the entity it loaded
Patched(deptConfig, deptDto) ==
  [deptConfig EXCEPT
     !.capacity = IF deptDto.capacity.defined
                  THEN deptDto.capacity.value ELSE @,
     !.openTime = IF deptDto.openTime.defined
                  THEN Text(deptDto.openTime.value) ELSE @]

\* updateDepartment: the lookup of the row, the NotFoundException, and the
\* assignments of the dto to the entity
UpdateDepartmentFindConfig(p) ==
  /\ calls[p].pc = "updateFindConfig"
  /\ IF FindConfig(calls[p].locationId, calls[p].department) = {}
     THEN Finish(p, NotFound("is not registered"))
     ELSE \E deptConfig \in
               FindConfig(calls[p].locationId, calls[p].department) :
            calls' = [calls EXCEPT ![p].pc = "updateSave",
                        ![p].deptConfig = Patched(deptConfig, calls[p].deptDto)]
  /\ UNCHANGED <<probe, nextLocationId, locationFields, locations, departmentConfigs, bookings, nextId, started>>

\* updateDepartment: locationDepartmentRepo.save(deptConfig), first part;
\* save reads the row of the entity by its id (NoConfig: there is none)
UpdateDepartmentReload(p) ==
  /\ calls[p].pc = "updateSave"
  /\ IF calls[p].stale
     THEN calls' = [calls EXCEPT ![p].pc = "updateWrite",
                                 ![p].loaded = NoConfig]
     ELSE \E row \in FindConfig(calls[p].locationId, calls[p].department) :
            calls' = [calls EXCEPT ![p].pc = "updateWrite",
                                   ![p].loaded = row]
  /\ UNCHANGED <<probe, nextLocationId, locationFields, locations, departmentConfigs, bookings, nextId, started>>

\* the row after the UPDATE that save issues: the columns in which the
\* entity differs from the row that save read
Updated(row, deptConfig, loaded) ==
  [row EXCEPT
     !.capacity = IF deptConfig.capacity # loaded.capacity
                  THEN deptConfig.capacity ELSE @,
     !.openTime = IF deptConfig.openTime # loaded.openTime
                  THEN deptConfig.openTime ELSE @]

\* updateDepartment: locationDepartmentRepo.save(deptConfig), second part;
\* an INSERT when save read no row, else an UPDATE by id of the columns
\* that changed, which writes nothing when the row was deleted since
UpdateDepartmentSave(p) ==
  /\ calls[p].pc = "updateWrite"
  /\ IF calls[p].loaded = NoConfig
     THEN InsertConfig(p, calls[p].deptConfig)
     ELSE /\ departmentConfigs' =
               IF calls[p].stale THEN departmentConfigs
               ELSE (departmentConfigs \ FindConfig(calls[p].locationId,
                                                    calls[p].department))
                    \cup {Updated(row, calls[p].deptConfig, calls[p].loaded) :
                            row \in FindConfig(calls[p].locationId,
                                               calls[p].department)}
          /\ Finish(p, Result("LocationDepartment", "", "", NoBooking))
  /\ UNCHANGED <<probe, nextLocationId, locationFields, locations, bookings, nextId, started>>

\* update: locationRepo.findOne({where: {locationNumber}}) and the
\* NotFoundException; the dto has no field of a location that the store
\* of this module keeps (locationName, building)
UpdateLocationFind(p, locationNumber) ==
  /\ calls[p].pc \in {"idle", "done"}
  /\ started' = started + 1
  /\ LET fresh == [IdleCall EXCEPT !.op = "updateLocation",
                     !.locationDto = [locationNumber |-> locationNumber,
                                      parentId |-> 0]]
     IN  IF findFlatByNumber(locationNumber) = {}
         THEN calls' = [calls EXCEPT ![p] =
                [fresh EXCEPT !.pc = "done",
                              !.result = NotFound("Location not found")]]
         ELSE \E l \in findFlatByNumber(locationNumber) :
                calls' = [calls EXCEPT ![p] =
                  [fresh EXCEPT !.pc = "updateLocationSave", !.locationId = l]]
  /\ UNCHANGED <<probe, nextLocationId, locationFields, locations, departmentConfigs, bookings, nextId>>

\* update: locationRepo.save(location), first part; save reads the row of
\* the entity by its id
UpdateLocationReload(p) ==
  /\ calls[p].pc = "updateLocationSave"
  /\ calls' = [calls EXCEPT ![p].pc =
                 IF calls[p].locationId \in locations
                 THEN "updateLocationUpdate" ELSE "updateLocationInsert"]
  /\ UNCHANGED <<probe, nextLocationId, locationFields, locations, departmentConfigs, bookings, nextId, started>>

\* the error code the INSERT of a location under the id it had is rejected
\* with: the primary key and the unique index on locationNumber
ReinsertLocationError(c) ==
  IF c.locationId \in locations
       \/ findFlatByNumber(c.locationDto.locationNumber) # {}
  THEN "23505" ELSE ""

\* update: locationRepo.save(location), second part; an UPDATE of
\* locationName and building when save read the row, else an INSERT of the
\* entity as findOne loaded it: under its id, without a parent
UpdateLocationSave(p) ==
  /\ calls[p].pc \in {"updateLocationUpdate", "updateLocationInsert"}
  /\ IF calls[p].pc = "updateLocationUpdate"
     THEN /\ Finish(p, Result("Location", "", "", NoBooking))
          /\ UNCHANGED <<locations, locationFields>>
     ELSE IF ReinsertLocationError(calls[p]) # ""
     THEN /\ calls' = [calls EXCEPT ![p].pc = "done",
                 ![p].txError = ReinsertLocationError(calls[p]),
                 ![p].result = QueryFailed(ReinsertLocationError(calls[p]))]
          /\ UNCHANGED <<locations, locationFields>>
     ELSE /\ locations' = locations \cup {calls[p].locationId}
          /\ locationFields' =
               [l \in locations \cup {calls[p].locationId} |->
                  IF l = calls[p].locationId THEN calls[p].locationDto
                  ELSE locationFields[l]]
          /\ Finish(p, Result("Location", "", "", NoBooking))
  /\ UNCHANGED <<probe, nextLocationId, departmentConfigs, bookings, nextId, started>>

RemoveDepartmentFindLocation(p, locationNumber, department) ==
  FindLocation(p, "removeDepartment", locationNumber, department, NoDeptDto,
               "removeDeptFindConfig")

\* removeDepartment: the lookup of the row and the NotFoundException
RemoveDepartmentFindConfig(p) ==
  /\ calls[p].pc = "removeDeptFindConfig"
  /\ IF FindConfig(calls[p].locationId, calls[p].department) = {}
     THEN Finish(p, NotFound("is not registered"))
     ELSE \E deptConfig \in
               FindConfig(calls[p].locationId, calls[p].department) :
            calls' = [calls EXCEPT ![p].pc = "removeDeptDelete",
                                   ![p].deptConfig = deptConfig]
  /\ UNCHANGED <<probe, nextLocationId, locationFields, locations, departmentConfigs, bookings, nextId, started>>

\* a call that holds an entity loaded from one of the deleted rows holds
\* an entity without a row from now on
HoldsDeleted(c, deleted) ==
  /\ c.pc \in {"updateSave", "updateWrite", "removeDeptDelete"}
  /\ ~c.stale
  /\ \E r \in deleted :
       r.locationId = c.locationId /\ r.department = c.department

\* the calls after worker p deleted the config rows deleted and returned
AfterDeleteOf(p, deleted) ==
  [q \in Procs |->
     IF q = p THEN [calls[p] EXCEPT !.pc = "done",
                      !.result = Result("void", "", "", NoBooking)]
     ELSE IF HoldsDeleted(calls[q], deleted)
     THEN [calls[q] EXCEPT !.stale = TRUE]
     ELSE calls[q]]

\* removeDepartment: locationDepartmentRepo.remove(deptConfig); nothing is
\* deleted when the row is gone already
RemoveDepartmentDelete(p) ==
  /\ calls[p].pc = "removeDeptDelete"
  /\ IF calls[p].stale
     THEN /\ UNCHANGED departmentConfigs
          /\ calls' = AfterDeleteOf(p, {})
     ELSE /\ departmentConfigs' =
               departmentConfigs \ FindConfig(calls[p].locationId,
                                              calls[p].department)
          /\ calls' = AfterDeleteOf(p, FindConfig(calls[p].locationId,
                                                  calls[p].department))
  /\ UNCHANGED <<probe, nextLocationId, locationFields, locations, bookings, nextId, started>>

RemoveLocationFind(p, locationNumber) ==
  FindLocation(p, "removeLocation", locationNumber, "", NoDeptDto,
               "removeLocation")

\* the bookings left by ON DELETE CASCADE of booking.locationId
CascadeBookings(removed) == {b \in bookings : b.locationId \notin removed}

\* the config rows left by ON DELETE CASCADE of
\* location_department.locationId
CascadeConfigs(removed) ==
  {r \in departmentConfigs : r.locationId \notin removed}

\* a booking inserted and not committed yet holds a lock on the row of its
\* location (the foreign key of booking.locationId): a DELETE of that row
\* waits for the end of the transaction
LockedByInsert(p, removed) ==
  \E q \in Procs \ {p} :
    calls[q].pc = "commit" /\ calls[q].locationId \in removed

\* remove: locationRepo.remove(location); the store deletes the row, its
\* descendants (ON DELETE CASCADE of the parent column) and the configs and
\* bookings of all of them
RemoveLocationDelete(p) ==
  /\ calls[p].pc = "removeLocation"
  /\ ~LockedByInsert(p, Subtree(calls[p].locationId))
  /\ locations' = locations \ Subtree(calls[p].locationId)
  /\ locationFields' = [l \in locations \ Subtree(calls[p].locationId) |->
                          locationFields[l]]
  /\ departmentConfigs' = CascadeConfigs(Subtree(calls[p].locationId))
  /\ bookings' = CascadeBookings(Subtree(calls[p].locationId))
  /\ calls' = AfterDeleteOf(p, departmentConfigs \
                               CascadeConfigs(Subtree(calls[p].locationId)))
  /\ UNCHANGED <<probe, nextLocationId, nextId, started>>

\* create: locationRepo.findOne({where: {locationNumber}}), the
\* ConflictException, and the test of dto.parentId
CreateLocationFind(p, locationDto) ==
  /\ calls[p].pc \in {"idle", "done"}
  /\ nextLocationId <= MaxLocationId
  /\ started' = started + 1
  /\ LET fresh == [IdleCall EXCEPT !.op = "createLocation",
                                   !.locationDto = locationDto]
     IN  calls' = [calls EXCEPT ![p] =
           IF findFlatByNumber(locationDto.locationNumber) # {}
           THEN [fresh EXCEPT !.pc = "done",
                              !.result = Conflict("already exists")]
           ELSE IF locationDto.parentId # 0
           THEN [fresh EXCEPT !.pc = "createFindParent"]
           ELSE [fresh EXCEPT !.pc = "createSave"]]
  /\ UNCHANGED <<probe, nextLocationId, locationFields, locations,
                 departmentConfigs, bookings, nextId>>

\* create: locationRepo.findOne({where: {id: dto.parentId}}) and the
\* NotFoundException
CreateLocationFindParent(p) ==
  /\ calls[p].pc = "createFindParent"
  /\ IF calls[p].locationDto.parentId \notin locations
     THEN Finish(p, NotFound("Parent location not found"))
     ELSE calls' = [calls EXCEPT ![p].pc = "createSave"]
  /\ UNCHANGED <<probe, nextLocationId, locationFields, locations,
                 departmentConfigs, bookings, nextId, started>>

\* the error code an INSERT into location is rejected with, "" when it is
\* accepted: the unique index on locationNumber and the foreign key of the
\* parent column
InsertLocationError(locationDto) ==
  IF findFlatByNumber(locationDto.locationNumber) # {} THEN "23505"
  ELSE IF locationDto.parentId # 0 /\ locationDto.parentId \notin locations
  THEN "23503"
  ELSE ""

\* create: locationRepo.save(location); the INSERT takes the next id of the
\* sequence, also when it is rejected
CreateLocationSave(p) ==
  /\ calls[p].pc = "createSave"
  /\ nextLocationId' = nextLocationId + 1
  /\ IF InsertLocationError(calls[p].locationDto) # ""
     THEN /\ calls' = [calls EXCEPT ![p].pc = "done",
                 ![p].txError = InsertLocationError(calls[p].locationDto),
                 ![p].result =
                   QueryFailed(InsertLocationError(calls[p].locationDto))]
          /\ UNCHANGED <<locations, locationFields>>
     ELSE /\ locations' = locations \cup {nextLocationId}
          /\ locationFields' =
               [l \in locations \cup {nextLocationId} |->
                  IF l = nextLocationId THEN calls[p].locationDto
                  ELSE locationFields[l]]
          /\ calls' = [calls EXCEPT ![p].pc = "done",
                 ![p].locationId = nextLocationId,
                 ![p].result = Result("Location", "", "", NoBooking)]
  /\ UNCHANGED <<probe, departmentConfigs, bookings, nextId, started>>

\* ------------------------------------------------------- specifications
\* One worker, every request: calls run one after the other.
Next ==
  \/ \E dto \in Dtos : CreateFindLocation(1, dto, FALSE) /\ UNCHANGED stable
  \/ CreateFindConfig(1) /\ UNCHANGED stable
  \/ TxQuery(1) /\ UNCHANGED stable
  \/ TxSave(1) /\ UNCHANGED stable
  \/ TxCommit(1) /\ UNCHANGED stable
  \/ \E code \in OtherErrorCodes : TxStoreError(1, code) /\ UNCHANGED stable
  \/ \E id \in 1..MaxId : RemoveFind(1, id) /\ UNCHANGED stable
  \/ RemoveDelete(1) /\ UNCHANGED stable

Spec == Init /\ [][Next]_vars

\* Two workers whose calls interleave at every await.
NextC ==
  \/ \E p \in Procs, dto \in ConcDtos :
       started < MaxCalls /\ CreateFindLocation(p, dto, TRUE)
         /\ UNCHANGED stable
  \/ \E p \in Procs : CreateFindConfig(p) /\ UNCHANGED stable
  \/ \E p \in Procs : TxQuery(p) /\ UNCHANGED stable
  \/ \E p \in Procs : TxSave(p) /\ UNCHANGED stable
  \/ \E p \in Procs : TxCommit(p) /\ UNCHANGED stable
  \/ \E p \in Procs : TxSerializationFailure(p) /\ UNCHANGED stable
  \/ \E p \in Procs, code \in OtherErrorCodes :
       TxStoreError(p, code) /\ UNCHANGED stable
  \/ \E p \in Procs, id \in 1..MaxId :
       RemoveFind(p, id) /\ UNCHANGED stable
  \/ \E p \in Procs : RemoveDelete(p) /\ UNCHANGED stable

SpecC == Init /\ [][NextC]_vars

\* The history variable, kept by the specification of resubmission (NextR)
\* and left alone elsewhere.  A create call that begins starts stable;
HistoryBeginsCreate(p) == stable' = [stable EXCEPT ![p] = TRUE]

\* a call that is not a create, and a create that the store failed, are
\* not followed;
HistoryDrops(p) == stable' = [stable EXCEPT ![p] = FALSE]

\* a step that changes the locations, the department configs or the
\* bookings ends the stability of every call, in progress or finished.
HistoryStep ==
  stable' =
    IF \/ bookings' # bookings
       \/ departmentConfigs' # departmentConfigs
       \/ locations' # locations
       \/ locationFields' # locationFields
    THEN [p \in Procs |-> FALSE]
    ELSE stable

\* Two workers whose calls interleave at every await, as in NextC, with the
\* history of the store kept: a request can be submitted again by the other
\* worker or by the same one, with or without a change of the store in
\* between.
NextR ==
  \/ \E p \in Procs, dto \in ConcDtos :
       started < MaxCalls /\ CreateFindLocation(p, dto, TRUE)
         /\ HistoryBeginsCreate(p)
  \/ \E p \in Procs : CreateFindConfig(p) /\ HistoryStep
  \/ \E p \in Procs : TxQuery(p) /\ HistoryStep
  \/ \E p \in Procs : TxSave(p) /\ HistoryStep
  \/ \E p \in Procs : TxCommit(p) /\ HistoryStep
  \/ \E p \in Procs : TxSerializationFailure(p) /\ HistoryStep
  \/ \E p \in Procs, code \in OtherErrorCodes :
       TxStoreError(p, code) /\ HistoryDrops(p)
  \/ \E p \in Procs, id \in 1..MaxId :
       RemoveFind(p, id) /\ HistoryDrops(p)
  \/ \E p \in Procs : RemoveDelete(p) /\ HistoryStep

SpecR == Init /\ [][NextR]_vars

\* 'Mon to Fri (6PM to 9AM)'
SixPmToNineAm ==
  WindowText(DayName(1), DayName(5), HourToken(6, PM), HourToken(9, AM))

\* requests of the specification with the LocationsService: the capacity of
\* location 2 used in full, a request inside the window of location 1, a
\* request for an hour of Monday at location 2, one whose end is before its
\* start, and a request at the location number LocationsService.create adds
LocDtos ==
  {Dto(2, "EFM", 2, Fri1700, Mon1000), Dto(1, "EFM", 1, Fri1700, Mon1000),
   Dto(2, "EFM", 1, Mon0900, Mon1000), Dto(2, "EFM", 1, Mon1000, Mon0900),
   Dto(3, "EFM", 1, Mon0900, Mon1000)}
\* bodies of addDepartment and updateDepartment
AddDtos ==
  {[capacity |-> Defined(1), openTime |-> Undefined(<<>>)],
   [capacity |-> Defined(2), openTime |-> Defined(MonToFri9to6)]}
UpdateDtos ==
  {[capacity |-> Defined(1), openTime |-> Undefined(<<>>)],
   [capacity |-> Undefined(0), openTime |-> Defined(SixPmToNineAm)]}

\* bodies of LocationsService.create: a new number under location 2, a new
\* number without a parent, and the number of location 2
LocationDtos ==
  {[locationNumber |-> 3, parentId |-> 2],
   [locationNumber |-> 3, parentId |-> 0],
   [locationNumber |-> 2, parentId |-> 0]}

\* Two workers whose calls of BookingsService and LocationsService
\* interleave at every await; the department calls are for the pair
\* (2, EFM), which has a row at first, and addDepartment also for the
\* location number that create adds.
NextL ==
  \/ \E p \in Procs, dto \in LocDtos :
       started < MaxCalls /\ CreateFindLocation(p, dto, TRUE) /\ UNCHANGED stable
  \/ \E p \in Procs : CreateFindConfig(p) /\ UNCHANGED stable
  \/ \E p \in Procs : TxQuery(p) /\ UNCHANGED stable
  \/ \E p \in Procs : TxSave(p) /\ UNCHANGED stable
  \/ \E p \in Procs : TxCommit(p) /\ UNCHANGED stable
  \/ \E p \in Procs : TxSerializationFailure(p) /\ UNCHANGED stable
  \/ \E p \in Procs, code \in ForeignKeyErrorCodes :
       TxForeignKeyViolation(p, code) /\ UNCHANGED stable
  \/ \E p \in Procs, id \in 1..MaxId : RemoveFind(p, id) /\ UNCHANGED stable
  \/ \E p \in Procs : RemoveDelete(p) /\ UNCHANGED stable
  \/ \E p \in Procs, locationNumber \in {2, 3}, deptDto \in AddDtos :
       /\ started < MaxCalls
       /\ AddDepartmentFindLocation(p, locationNumber, "EFM", deptDto) /\ UNCHANGED stable
  \/ \E p \in Procs : AddDepartmentFindConfig(p) /\ UNCHANGED stable
  \/ \E p \in Procs : AddDepartmentSave(p) /\ UNCHANGED stable
  \/ \E p \in Procs, deptDto \in UpdateDtos :
       started < MaxCalls /\ UpdateDepartmentFindLocation(p, 2, "EFM", deptDto) /\ UNCHANGED stable
  \/ \E p \in Procs : UpdateDepartmentFindConfig(p) /\ UNCHANGED stable
  \/ \E p \in Procs : UpdateDepartmentReload(p) /\ UNCHANGED stable
  \/ \E p \in Procs : UpdateDepartmentSave(p) /\ UNCHANGED stable
  \/ \E p \in Procs :
       started < MaxCalls /\ RemoveDepartmentFindLocation(p, 2, "EFM") /\ UNCHANGED stable
  \/ \E p \in Procs : RemoveDepartmentFindConfig(p) /\ UNCHANGED stable
  \/ \E p \in Procs : RemoveDepartmentDelete(p) /\ UNCHANGED stable
  \/ \E p \in Procs, l \in {1, 2} :
       started < MaxCalls /\ RemoveLocationFind(p, l) /\ UNCHANGED stable
  \/ \E p \in Procs : RemoveLocationDelete(p) /\ UNCHANGED stable
  \/ \E p \in Procs, locationDto \in LocationDtos :
       started < MaxCalls /\ CreateLocationFind(p, locationDto) /\ UNCHANGED stable
  \/ \E p \in Procs : CreateLocationFindParent(p) /\ UNCHANGED stable
  \/ \E p \in Procs : CreateLocationSave(p) /\ UNCHANGED stable
  \/ \E p \in Procs : started < MaxCalls /\ UpdateLocationFind(p, 2) /\ UNCHANGED stable
  \/ \E p \in Procs : UpdateLocationReload(p) /\ UNCHANGED stable
  \/ \E p \in Procs : UpdateLocationSave(p) /\ UNCHANGED stable

SpecL == Init /\ [][NextL]_vars

\* The parser called on its own: a call of parseHour, parseOpenTime or
\* isWithinOpenTime with arguments drawn from the input sets.
ProbeInputs ==
  {[NoProbe EXCEPT !.fn = "parseHour", !.raw = raw] : raw \in RawHours}
  \cup {[NoProbe EXCEPT !.fn = "parseOpenTime", !.openTime = openTime] :
          openTime \in OpenTimeTexts}
  \cup {[NoProbe EXCEPT !.fn = "isWithinOpenTime", !.openTime = openTime,
                        !.date = date] :
          openTime \in OpenTimeTexts, date \in ProbeDates}

InitP ==
  /\ locations = {}
  /\ departmentConfigs = {}
  /\ bookings = {}
  /\ nextId = 1
  /\ calls = [p \in Procs |-> IdleCall]
  /\ started = 0
  /\ nextLocationId = 3
  /\ locationFields = <<>>
  /\ probe \in ProbeInputs
  /\ stable = [p \in Procs |-> FALSE]

ApplyParseHour ==
  /\ probe.fn = "parseHour" /\ ~probe.done
  /\ probe' = [probe EXCEPT !.done = TRUE, !.hour = parseHour(probe.raw)]
  /\ UNCHANGED <<locations, departmentConfigs, bookings, nextId, calls, started,
                 nextLocationId, locationFields, stable>>

ApplyParseOpenTime ==
  /\ probe.fn = "parseOpenTime" /\ ~probe.done
  /\ probe' = [probe EXCEPT !.done = TRUE,
                            !.parsed = parseOpenTime(probe.openTime)]
  /\ UNCHANGED <<locations, departmentConfigs, bookings, nextId, calls, started,
                 nextLocationId, locationFields, stable>>

ApplyIsWithinOpenTime ==
  /\ probe.fn = "isWithinOpenTime" /\ ~probe.done
  /\ probe' = [probe EXCEPT !.done = TRUE,
                 !.within = isWithinOpenTime(probe.openTime, probe.date)]
  /\ UNCHANGED <<locations, departmentConfigs, bookings, nextId, calls, started,
                 nextLocationId, locationFields, stable>>

NextP ==
  \/ ApplyParseHour
  \/ ApplyParseOpenTime
  \/ ApplyIsWithinOpenTime

SpecP == InitP /\ [][NextP]_vars

\* ---------------------------------------------------------------- claims
\* a location row carries the number
LocationExists(locationNumber) ==
  \E l \in locations : locationFields[l].locationNumber = locationNumber

Overlap(a, b) == a.startTime < b.endTime /\ b.startTime < a.endTime

CreateDone(p) == calls[p].op = "create" /\ calls[p].pc = "done"

\* the bookings, other than the one the call of p saved, that the request
\* of p collides with
Colliding(p) ==
  {b \in bookings : /\ b # calls[p].result.saved
                    /\ b.locationId = calls[p].locationId
                    /\ Overlap(b, calls[p].dto)}

\* C1: no two persisted bookings of one location have overlapping
\* half-open intervals [startTime, endTime), whatever the interleaving of
\* create and remove calls.
C1_NoOverlap ==
  \A a \in bookings : \A b \in bookings :
    (a # b /\ a.locationId = b.locationId) => ~Overlap(a, b)

\* two bookings of one location are persisted next to each other, and a
\* concurrent create was aborted
C1_Witness ==
  /\ \E a \in bookings : \E b \in bookings :
       a # b /\ a.locationId = b.locationId /\ a.endTime = b.startTime
  /\ \E p \in Procs : CreateDone(p) /\ calls[p].txError = "40001"

\* the failure the claimed order of checks gives an existing location:
\* temporal sanity, scope, capacity, open time ("" when all pass)
C5_FirstFailure(dto) ==
  LET rows == {r \in departmentConfigs :
                 /\ r.locationId \in findFlatByNumber(dto.locationNumber)
                 /\ r.department = dto.department}
      row == CHOOSE r \in rows : TRUE
  IN  IF dto.startTime >= dto.endTime THEN "startTime must be before endTime"
      ELSE IF rows = {} THEN "does not serve department"
      ELSE IF dto.attendees > row.capacity THEN "Capacity exceeded"
      ELSE IF ~Truthy(row.openTime) THEN ""
      ELSE IF isWithinOpenTime(row.openTime.text, dto.startTime) = "throw"
           THEN "Invalid openTime format"
      ELSE IF isWithinOpenTime(row.openTime.text, dto.startTime) = "false"
           THEN "Booking start time is outside open hours"
      ELSE IF isWithinOpenTime(row.openTime.text, dto.endTime) = "false"
           THEN "Booking end time is outside open hours"
      ELSE ""

\* the request passes every check of create on its own: its location
\* exists and no validation fails
IndividuallyValid(dto) ==
  /\ LocationExists(dto.locationNumber)
  /\ C5_FirstFailure(dto) = ""

\* the two workers ran the only two create calls, each request valid on
\* its own, for one location and with overlapping intervals, no other
\* store error occurred and nothing the two saved was removed
C2_TwoOverlappingCreates(p, q) ==
  /\ p # q
  /\ CreateDone(p) /\ CreateDone(q)
  /\ IndividuallyValid(calls[p].dto) /\ IndividuallyValid(calls[q].dto)
  /\ calls[p].dto.locationNumber = calls[q].dto.locationNumber
  /\ Overlap(calls[p].dto, calls[q].dto)
  /\ calls[p].txError \in {"", "40001"}
  /\ calls[q].txError \in {"", "40001"}
  /\ bookings = {calls[r].result.saved :
                   r \in {r \in {p, q} : calls[r].result.kind = "Booking"}}
  /\ started = 2

\* C2: of two overlapping create requests for one location, each valid on
\* its own, that run concurrently, exactly one returns a booking and the
\* other fails with ConflictException.
C2_ExactlyOneSucceedsOtherConflict ==
  \A p \in Procs : \A q \in Procs :
    C2_TwoOverlappingCreates(p, q) =>
      {calls[p].result.kind, calls[q].result.kind} =
        {"Booking", "ConflictException"}

\* C3: a create whose transaction the store aborted with a serialization
\* failure (40001) fails with ConflictException.
C3_SerializationFailureIsConflict ==
  \A p \in Procs :
    (CreateDone(p) /\ calls[p].txError = "40001") =>
      calls[p].result.kind = "ConflictException"

\* C4: a create whose transaction failed with a store error other than
\* 40001 fails with that error unchanged, and the step that fails persists
\* no booking.
C4_OtherStoreErrorUnchanged ==
  [][\A p \in Procs :
       (calls'[p].txError \notin {"", "40001"} /\ calls[p].pc # "done"
        /\ calls'[p].pc = "done")
       => /\ calls'[p].result.kind = "QueryFailedError"
          /\ calls'[p].result.code = calls'[p].txError
          /\ bookings' = bookings]_vars

C4_Witness ==
  \E p \in Procs :
    /\ CreateDone(p)
    /\ calls[p].txError = "23505"
    /\ calls[p].result.code = "23505"
    /\ bookings # {}

\* C5 (as claimed): every request with startTime >= endTime fails with the
\* invalid-interval error, also when the location does not exist.
C5_InvalidIntervalAlwaysFirst ==
  \A p \in Procs :
    (CreateDone(p) /\ calls[p].dto.startTime >= calls[p].dto.endTime) =>
      calls[p].result.msg = "startTime must be before endTime"

\* C5 (amended): a request naming a location that does not exist fails
\* with NotFoundException whatever else it carries; a request naming an
\* existing location reports the first failing check in the order temporal
\* sanity, scope, capacity, open time, and reports a validation failure
\* only when one of them fails.
C5_CheckOrder ==
  \A p \in Procs :
    CreateDone(p) =>
      IF ~LocationExists(calls[p].dto.locationNumber)
      THEN calls[p].result.kind = "NotFoundException"
      ELSE IF C5_FirstFailure(calls[p].dto) # ""
      THEN /\ calls[p].result.kind = "BadRequestException"
           /\ calls[p].result.msg = C5_FirstFailure(calls[p].dto)
      ELSE calls[p].result.kind \notin {"BadRequestException", "NotFoundException"}

\* a request over capacity and outside the open hours was rejected
C5_Witness ==
  \E p \in Procs :
    /\ CreateDone(p)
    /\ calls[p].result.msg = "Capacity exceeded"
    /\ calls[p].dto.attendees > calls[p].deptConfig.capacity
    /\ Truthy(calls[p].deptConfig.openTime)
    /\ isWithinOpenTime(calls[p].deptConfig.openTime.text,
                        calls[p].dto.startTime) = "false"

\* the worker whose step this is (a commit also marks the transactions of
\* the other workers)
Acted(p) ==
  [calls'[p] EXCEPT !.concurrent = FALSE, !.conflict = FALSE] #
  [calls[p] EXCEPT !.concurrent = FALSE, !.conflict = FALSE]

\* C6: no step of a create call that has not returned a booking, and so
\* no create call that fails, changes the persisted bookings.
C6_FailedCreateLeavesBookings ==
  [][\A p \in Procs :
       (Acted(p) /\ calls'[p].op = "create" /\ calls'[p].result.kind # "Booking")
       => bookings' = bookings]_vars

\* a create failed with a slot conflict while bookings were persisted
C6_Witness ==
  \E p \in Procs :
    /\ CreateDone(p)
    /\ calls[p].result.kind = "ConflictException"
    /\ Colliding(p) # {}

\* C7: a create that passed the validation checks and ran alone (no store
\* error) fails with ConflictException exactly when a persisted booking of
\* the same location has startTime < candidate.endTime and endTime >
\* candidate.startTime.
C7_ConflictIffOverlap ==
  \A p \in Procs :
    (CreateDone(p) /\ calls[p].result.kind \in {"Booking", "ConflictException"})
    => (calls[p].result.kind = "ConflictException" <=> Colliding(p) # {})

\* a candidate strictly inside a persisted booking was rejected
C7_Witness ==
  \E p \in Procs :
    /\ CreateDone(p)
    /\ calls[p].result.kind = "ConflictException"
    /\ \E b \in Colliding(p) :
         b.startTime < calls[p].dto.startTime /\ calls[p].dto.endTime < b.endTime

\* the config row a persisted booking was created under has a day/hour
\* window
WindowRows(b) ==
  {r \in departmentConfigs :
     /\ r.locationId = b.locationId
     /\ r.department = b.department
     /\ Truthy(r.openTime)
     /\ parseOpenTime(r.openTime.text).tag = "parsed"}

\* C8 (as claimed): every instant between startTime and endTime of a
\* persisted booking lies inside the window of its config.
C8_WholeIntervalInsideWindow ==
  \A b \in bookings : \A r \in WindowRows(b) : \A t \in Instants :
    (b.startTime <= t /\ t <= b.endTime) =>
      isWithinOpenTime(r.openTime.text, t) = "true"

\* C8 (amended): startTime and endTime of a persisted booking both lie
\* inside the window of its config.
C8_EndpointsInsideWindow ==
  \A b \in bookings : \A r \in WindowRows(b) :
    /\ isWithinOpenTime(r.openTime.text, b.startTime) = "true"
    /\ isWithinOpenTime(r.openTime.text, b.endTime) = "true"

\* a booking under a window is persisted that spans instants outside it
C8_Witness ==
  \E b \in bookings : \E r \in WindowRows(b) : \E t \in Instants :
    /\ b.startTime < t /\ t < b.endTime
    /\ isWithinOpenTime(r.openTime.text, t) = "false"

\* the open time check was reached: a config was found, the capacity
\* suffices, the open time is set and parses
C9_ReachedWindowCheck(p) ==
  /\ CreateDone(p)
  /\ calls[p].deptConfig # NoConfig
  /\ calls[p].dto.attendees <= calls[p].deptConfig.capacity
  /\ Truthy(calls[p].deptConfig.openTime)
  /\ parseOpenTime(calls[p].deptConfig.openTime.text).tag # "error"

\* C9: with an open time set, create rejects the request when startTime or
\* endTime is outside the window; the error names the endpoint, and names
\* the start when both are outside.
C9_EndpointReported ==
  \A p \in Procs :
    C9_ReachedWindowCheck(p) =>
      LET ot == calls[p].deptConfig.openTime.text
          startIn == isWithinOpenTime(ot, calls[p].dto.startTime) = "true"
          endIn == isWithinOpenTime(ot, calls[p].dto.endTime) = "true"
      IN  /\ ~startIn =>
               calls[p].result.msg = "Booking start time is outside open hours"
          /\ (startIn /\ ~endIn) =>
               calls[p].result.msg = "Booking end time is outside open hours"
          /\ (startIn /\ endIn) =>
               calls[p].result.kind # "BadRequestException"

\* both endpoints were outside the window and the start was reported
C9_Witness ==
  \E p \in Procs :
    /\ C9_ReachedWindowCheck(p)
    /\ isWithinOpenTime(calls[p].deptConfig.openTime.text,
                        calls[p].dto.startTime) = "false"
    /\ isWithinOpenTime(calls[p].deptConfig.openTime.text,
                        calls[p].dto.endTime) = "false"
    /\ calls[p].result.msg = "Booking start time is outside open hours"

\* C10: a create that found its config is rejected for capacity exactly
\* when attendees > capacity; with attendees = capacity, the open time
\* check passing, no colliding booking and no store error, it succeeds.
C10_CapacityBoundary ==
  \A p \in Procs :
    (CreateDone(p) /\ calls[p].deptConfig # NoConfig) =>
      /\ calls[p].result.msg = "Capacity exceeded"
           <=> calls[p].dto.attendees > calls[p].deptConfig.capacity
      /\ ( /\ calls[p].dto.attendees = calls[p].deptConfig.capacity
           /\ OpenTimeCheck(calls[p].deptConfig.openTime,
                            calls[p].dto.startTime, calls[p].dto.endTime) = ""
           /\ Colliding(p) = {}
           /\ calls[p].txError = "" )
         => calls[p].result.kind = "Booking"

\* a request with attendees = capacity succeeded under a config whose
\* capacity is above one
C10_Witness ==
  \E p \in Procs :
    /\ CreateDone(p)
    /\ calls[p].result.kind = "Booking"
    /\ calls[p].dto.attendees = calls[p].deptConfig.capacity
    /\ calls[p].deptConfig.capacity > 1

\* the config rows of the pair (location, department) of the request of p
C11_RowsOfRequest(p) ==
  {r \in departmentConfigs :
     /\ r.locationId \in findFlatByNumber(calls[p].dto.locationNumber)
     /\ r.department = calls[p].dto.department}

\* C11: a create with startTime < endTime on an existing location whose
\* pair (location, department) has no config row fails with
\* BadRequestException 'does not serve department', whatever its attendees
\* and times.
C11_UnknownScope ==
  \A p \in Procs :
    ( /\ CreateDone(p)
      /\ LocationExists(calls[p].dto.locationNumber)
      /\ calls[p].dto.startTime < calls[p].dto.endTime
      /\ C11_RowsOfRequest(p) = {} )
    => calls[p].result = BadRequest("does not serve department")

\* the department is not served by a location that serves another one; the
\* request has more attendees than any config of the location holds and
\* starts on a Saturday
C11_Witness ==
  \E p \in Procs :
    /\ CreateDone(p)
    /\ calls[p].result.msg = "does not serve department"
    /\ \E r \in departmentConfigs :
         r.locationId \in findFlatByNumber(calls[p].dto.locationNumber)
    /\ \A r \in departmentConfigs :
         r.locationId \in findFlatByNumber(calls[p].dto.locationNumber)
           => calls[p].dto.attendees > r.capacity
    /\ calls[p].dto.startTime = Sat1000

\* C12 (as claimed): a create naming a location that does not exist fails
\* with the unknown-scope error, as one naming a location without a config
\* for the department does.
C12_MissingLocationIsUnknownScope ==
  \A p \in Procs :
    (CreateDone(p) /\ ~LocationExists(calls[p].dto.locationNumber))
    => calls[p].result = BadRequest("does not serve department")

\* C12 (amended): a create fails with NotFoundException 'Location not
\* found' exactly when the location does not exist; the unknown-scope error
\* is a BadRequestException and is given only for a location that exists.
C12_MissingLocationIsNotFound ==
  \A p \in Procs :
    CreateDone(p) =>
      /\ ~LocationExists(calls[p].dto.locationNumber)
           <=> calls[p].result = NotFound("Location not found")
      /\ calls[p].result.msg = "does not serve department"
           => /\ LocationExists(calls[p].dto.locationNumber)
              /\ calls[p].result.kind = "BadRequestException"

\* a create with a valid interval for a location that does not exist ended
\* with NotFoundException
C12_Witness ==
  \E p \in Procs :
    /\ CreateDone(p)
    /\ ~LocationExists(calls[p].dto.locationNumber)
    /\ calls[p].dto.startTime < calls[p].dto.endTime
    /\ calls[p].result.kind = "NotFoundException"

\* C13: the step that starts a create for an existing location with
\* startTime >= endTime ends the call with BadRequestException 'startTime
\* must be before endTime' and leaves the persisted bookings as they were.
C13_InvalidIntervalRejected ==
  [][\A p \in Procs :
       ( /\ calls'[p] # calls[p]
         /\ calls[p].pc \in {"idle", "done"}
         /\ calls'[p].op = "create"
         /\ LocationExists(calls'[p].dto.locationNumber)
         /\ calls'[p].dto.startTime >= calls'[p].dto.endTime )
       => /\ calls'[p].pc = "done"
          /\ calls'[p].result = BadRequest("startTime must be before endTime")
          /\ bookings' = bookings]_vars

\* a request with startTime = endTime for a department the location does
\* not serve was rejected for its interval while a booking was persisted
C13_Witness ==
  \E p \in Procs :
    /\ CreateDone(p)
    /\ calls[p].dto.startTime = calls[p].dto.endTime
    /\ LocationExists(calls[p].dto.locationNumber)
    /\ C11_RowsOfRequest(p) = {}
    /\ calls[p].result.msg = "startTime must be before endTime"
    /\ bookings # {}

\* the messages of the open time block of create
C14_OpenTimeMessages ==
  {"Invalid openTime format", "Booking start time is outside open hours",
   "Booking end time is outside open hours"}

\* C14: under a config whose openTime is null the open time block passes
\* for every startTime and endTime, and the parser is not consulted: a
\* create that found such a config and has room never ends with a
\* BadRequestException (calling the parser on null would end it with
\* 'Invalid openTime format').
C14_NullOpenTimePasses ==
  /\ \A s \in Instants : \A e \in Instants : OpenTimeCheck(NullText, s, e) = ""
  /\ \A p \in Procs :
       ( /\ CreateDone(p)
         /\ calls[p].deptConfig # NoConfig
         /\ calls[p].deptConfig.openTime.null )
       => /\ calls[p].result.msg \notin C14_OpenTimeMessages
          /\ calls[p].dto.attendees <= calls[p].deptConfig.capacity
               => calls[p].result.kind # "BadRequestException"

\* a booking from a Saturday to a Sunday was accepted under a config whose
\* openTime is null
C14_Witness ==
  \E p \in Procs :
    /\ CreateDone(p)
    /\ calls[p].deptConfig # NoConfig
    /\ calls[p].deptConfig.openTime.null
    /\ calls[p].result.kind = "Booking"
    /\ calls[p].dto.startTime = Sat1000
    /\ calls[p].dto.endTime = Sun1000

\* the config rows whose stored openTime is set and does not parse
C15_UnparsableRows ==
  {r \in departmentConfigs :
     ~r.openTime.null /\ r.openTime.text # <<>>
     /\ parseOpenTime(r.openTime.text).tag = "error"}

\* C15: a create that reaches the open time block under a config whose
\* stored openTime does not parse fails with BadRequestException 'Invalid
\* openTime format', and no booking is persisted under such a config.
C15_InvalidFormatSurfaced ==
  /\ \A p \in Procs :
       ( /\ CreateDone(p)
         /\ calls[p].deptConfig \in C15_UnparsableRows
         /\ calls[p].dto.attendees <= calls[p].deptConfig.capacity )
       => calls[p].result = BadRequest("Invalid openTime format")
  /\ \A b \in bookings : \A r \in C15_UnparsableRows :
       ~(b.locationId = r.locationId /\ b.department = r.department)

\* a request with room was rejected for the format of the stored openTime
\* while a booking of the same location was persisted
C15_Witness ==
  \E p \in Procs :
    /\ CreateDone(p)
    /\ calls[p].deptConfig \in C15_UnparsableRows
    /\ calls[p].dto.attendees <= calls[p].deptConfig.capacity
    /\ calls[p].result.msg = "Invalid openTime format"
    /\ \E b \in bookings : b.locationId = calls[p].locationId

\* --------------------------------------------------- claims on the parser
\* isWithinOpenTime returned for a text that parses to a day/hour window
WindowProbed ==
  /\ probe.fn = "isWithinOpenTime"
  /\ probe.done
  /\ parseOpenTime(probe.openTime).tag = "parsed"

\* the days from startDay forward to endDay, wrapping after Saturday
ForwardWalk(startDay, endDay) ==
  {(startDay + k) % 7 : k \in 0..((endDay - startDay + 7) % 7)}

\* the day of the probed date is one of the days of the probed window
OnAllowedDay ==
  (probe.date \div (24 * 60)) % 7 \in
    ForwardWalk(parseOpenTime(probe.openTime).startDay,
                parseOpenTime(probe.openTime).endDay)

MinuteOfDay == probe.date % (24 * 60)
StartMinute == parseOpenTime(probe.openTime).startHour * 60
EndMinute == parseOpenTime(probe.openTime).endHour * 60

\* C16 (as claimed): the end hour is exclusive; on an allowed day
\* isWithinOpenTime is true exactly when
\* startHour*60 <= minuteOfDay < endHour*60.
C16_EndHourExclusive ==
  (WindowProbed /\ OnAllowedDay) =>
    (probe.within = "true"
       <=> (StartMinute <= MinuteOfDay /\ MinuteOfDay < EndMinute))

\* C16 (amended): the end hour is inclusive, not exclusive; on an allowed
\* day isWithinOpenTime is true exactly when
\* startHour*60 <= minuteOfDay <= endHour*60, so that at exactly endHour:00
\* it is true for a window whose end hour is not before its start hour, and
\* false, as at every other minute, for a window whose end hour is before
\* its start hour.
C16_EndHourInclusive ==
  (WindowProbed /\ OnAllowedDay) =>
    /\ probe.within = "true"
         <=> (StartMinute <= MinuteOfDay /\ MinuteOfDay <= EndMinute)
    /\ (MinuteOfDay = EndMinute /\ StartMinute <= EndMinute)
         => probe.within = "true"
    /\ StartMinute > EndMinute => probe.within = "false"

\* 'Mon to Fri (9AM to 6PM)' at Monday 18:00 gave true
C16_Witness ==
  /\ WindowProbed
  /\ probe.openTime = MonToFri9to6
  /\ probe.date = At(8, 18, 0)
  /\ probe.within = "true"

\* C17 (as claimed): for every window, at an instant of an allowed day
\* isWithinOpenTime is true at exactly endHour:00 and false at endHour:01.
C17_EndMinuteInclusiveEveryWindow ==
  (WindowProbed /\ OnAllowedDay) =>
    /\ MinuteOfDay = EndMinute => probe.within = "true"
    /\ MinuteOfDay = EndMinute + 1 => probe.within = "false"

\* C17 (amended): for every day range, at an instant of an allowed day
\* isWithinOpenTime is false at endHour:01, and at exactly endHour:00 it is
\* true when the end hour is not before the start hour and false when it
\* is.
C17_EndMinuteInclusive ==
  (WindowProbed /\ OnAllowedDay) =>
    /\ MinuteOfDay = EndMinute
         => (probe.within = "true" <=> StartMinute <= EndMinute)
    /\ MinuteOfDay = EndMinute + 1 => probe.within = "false"

\* a window whose day range wraps ('Fri to Mon (9AM to 6PM)') at Sunday
\* 18:00 gave true
C17_Witness ==
  /\ WindowProbed
  /\ parseOpenTime(probe.openTime).startDay = 5
  /\ parseOpenTime(probe.openTime).endDay = 1
  /\ probe.date = At(7, 18, 0)
  /\ probe.within = "true"

\* C18 (as claimed): isWithinOpenTime is false when the day is not in the
\* day range or the minute of the day is below startHour*60, and true at
\* exactly startHour:00 on an allowed day, for every day/hour window.
C18_StartInclusiveEveryWindow ==
  WindowProbed =>
    /\ ~OnAllowedDay => probe.within = "false"
    /\ MinuteOfDay < StartMinute => probe.within = "false"
    /\ (OnAllowedDay /\ MinuteOfDay = StartMinute) => probe.within = "true"

\* C18 (amended): as claimed, but true at exactly startHour:00 on an
\* allowed day only for a window whose end hour is not before its start
\* hour; when the end hour is before the start hour it is false there too.
C18_StartInclusive ==
  WindowProbed =>
    /\ ~OnAllowedDay => probe.within = "false"
    /\ MinuteOfDay < StartMinute => probe.within = "false"
    /\ (OnAllowedDay /\ MinuteOfDay = StartMinute)
         => (probe.within = "true" <=> StartMinute <= EndMinute)
    /\ probe.openTime = MonToFri9to6 =>
         /\ probe.date = At(8, 9, 0) => probe.within = "true"
         /\ probe.date \in {At(8, 8, 59), At(8, 19, 0), At(13, 10, 0)}
              => probe.within = "false"

\* 'Mon to Fri (10PM to 2AM)' at Monday 22:00 gave false
C18_Witness ==
  /\ WindowProbed
  /\ OnAllowedDay
  /\ StartMinute = 22 * 60
  /\ EndMinute = 2 * 60
  /\ MinuteOfDay = StartMinute
  /\ probe.within = "false"

\* C19: the allowed days isWithinOpenTime computes are the forward walk
\* from startDay to endDay, the loop has stopped after at most 7 passes,
\* and an instant inside the hour range is within the window exactly on
\* the days of the walk.
C19_AllowedDaysForwardWalk ==
  WindowProbed =>
    /\ allowedDays(parseOpenTime(probe.openTime)) =
         ForwardWalk(parseOpenTime(probe.openTime).startDay,
                     parseOpenTime(probe.openTime).endDay)
    /\ AllowedDaysLoop(parseOpenTime(probe.openTime))[7].stopped
    /\ (StartMinute <= MinuteOfDay /\ MinuteOfDay <= EndMinute)
         => (probe.within = "true" <=> OnAllowedDay)
    /\ ( /\ parseOpenTime(probe.openTime).startDay = 5
         /\ parseOpenTime(probe.openTime).endDay = 1 )
       => allowedDays(parseOpenTime(probe.openTime)) = {5, 6, 0, 1}
    /\ ( /\ parseOpenTime(probe.openTime).startDay = 1
         /\ parseOpenTime(probe.openTime).endDay = 0 )
       => allowedDays(parseOpenTime(probe.openTime)) = 0..6

\* 'Fri to Mon (9AM to 6PM)' at Sunday 12:00 gave true
C19_Witness ==
  /\ WindowProbed
  /\ parseOpenTime(probe.openTime).startDay = 5
  /\ parseOpenTime(probe.openTime).endDay = 1
  /\ probe.date = At(7, 12, 0)
  /\ probe.within = "true"

\* C20: parseHour gives 0 for 12AM, h for hAM and h + 12 for hPM with h
\* in 1..11, and 12 for 12PM, in either case of the period.
C20_ParseHour ==
  (probe.fn = "parseHour" /\ probe.done) =>
    \A h \in 1..12 :
      /\ probe.raw \in {HourToken(h, AM), HourToken(h, <<"a", "m">>)}
           => probe.hour = (IF h = 12 THEN 0 ELSE h)
      /\ probe.raw \in {HourToken(h, PM), HourToken(h, <<"p", "m">>)}
           => probe.hour = (IF h = 12 THEN 12 ELSE h + 12)

\* parseHour of "12PM" gave 12
C20_Witness ==
  /\ probe.fn = "parseHour"
  /\ probe.done
  /\ probe.raw = <<"1", "2", "P", "M">>
  /\ probe.hour = 12

\* C21 (as claimed): every window parseOpenTime accepts has startDay and
\* endDay in 0..6 and startHour and endHour in 0..23; an hour token whose
\* number is outside 1..12 never yields an hour outside 0..23.
C21_HoursInRange ==
  (probe.fn = "parseOpenTime" /\ probe.done /\ probe.parsed.tag = "parsed") =>
    /\ probe.parsed.startDay \in 0..6
    /\ probe.parsed.endDay \in 0..6
    /\ probe.parsed.startHour \in 0..23
    /\ probe.parsed.endHour \in 0..23

\* C22: for the sentinel in any case and with blanks around it,
\* parseOpenTime gives the always-available value and isWithinOpenTime is
\* true at every instant.
C22_SentinelAlwaysOpen ==
  (probe.done /\ toLowerCase(trim(probe.openTime)) = SentinelText) =>
    /\ probe.fn = "parseOpenTime" => probe.parsed = AlwaysOpen
    /\ probe.fn = "isWithinOpenTime" => probe.within = "true"

\* isWithinOpenTime of 'ALWAYS OPEN' at Saturday 23:59 gave true
C22_Witness ==
  /\ probe.fn = "isWithinOpenTime"
  /\ probe.done
  /\ probe.openTime = <<"A", "L", "W", "A", "Y", "S", " ", "O", "P", "E", "N">>
  /\ probe.date = At(13, 23, 59)
  /\ probe.within = "true"

\* ------------------------------------------ claims on create and remove
\* the call of p was rejected by a check of create (not by a store error)
ValidationFailure(p) ==
  /\ CreateDone(p)
  /\ calls[p].result.kind \in
       {"BadRequestException", "NotFoundException", "ConflictException"}

\* the call of p returns a booking in this step
ReturnsBooking(p) ==
  /\ calls[p].pc # "done"
  /\ calls'[p].pc = "done"
  /\ calls'[p].result.kind = "Booking"

\* C27: a create that succeeds adds exactly one booking, with a fresh id
\* and the location, department, attendees, startTime and endTime of the
\* request, returns that booking and leaves every other booking unchanged.
C27_CreateAddsTheRequest ==
  [][\A p \in Procs :
       ReturnsBooking(p) =>
         /\ \A b \in bookings : b.id # calls'[p].result.saved.id
         /\ bookings' = bookings \cup {calls'[p].result.saved}
         /\ calls'[p].result.saved.locationId \in
              findFlatByNumber(calls[p].dto.locationNumber)
         /\ calls'[p].result.saved.department = calls[p].dto.department
         /\ calls'[p].result.saved.attendees = calls[p].dto.attendees
         /\ calls'[p].result.saved.startTime = calls[p].dto.startTime
         /\ calls'[p].result.saved.endTime = calls[p].dto.endTime]_vars

\* a second booking was added next to the first: 1 attendee under a
\* capacity of 2
C27_Witness ==
  /\ CreateDone(1)
  /\ calls[1].result.kind = "Booking"
  /\ calls[1].result.saved.id = 2
  /\ calls[1].result.saved.attendees = 1
  /\ calls[1].deptConfig.capacity = 2
  /\ Cardinality(bookings) = 2
  /\ calls[1].result.saved \in bookings

\* C28: remove(id) fails with NotFoundException and changes nothing when no
\* booking has that id; otherwise it deletes exactly that booking, and a
\* create that is rejected with ConflictException afterwards collides with
\* a booking that is still persisted, never with the deleted one.
C28_RemoveDeletesExactlyOne ==
  [][\A p \in Procs :
       /\ (calls'[p].op = "remove" /\ calls'[p].pc = "done" /\ Acted(p)) =>
            IF calls'[p].result.kind = "NotFoundException"
            THEN /\ bookings' = bookings
                 /\ \A b \in bookings : b.id # calls'[p].id
            ELSE /\ calls'[p].result.kind = "void"
                 /\ \E b \in bookings :
                      b.id = calls'[p].id /\ bookings' = bookings \ {b}
       /\ (calls'[p].op = "create" /\ calls'[p].pc = "done" /\ Acted(p)
             /\ calls'[p].result.kind = "ConflictException") =>
            \E b \in bookings' :
              /\ b.locationId = calls'[p].locationId
              /\ Overlap(b, calls'[p].dto)]_vars

\* booking 1 was deleted and the create that followed took its interval at
\* location 1, where only Friday 17:00 to Monday 10:00 passes the checks
C28_Witness ==
  /\ CreateDone(1)
  /\ calls[1].result.kind = "Booking"
  /\ calls[1].result.saved.id = 2
  /\ calls[1].result.saved.locationId = 1
  /\ bookings = {calls[1].result.saved}

\* ------------------------------------- claims on the LocationsService
\* every persisted booking starts before it ends
StartsBeforeEnd == \A b \in bookings : b.startTime < b.endTime

\* a booking that is persisted before and after a step is the same row
RowsKept == \A a \in bookings : \A b \in bookings' : a.id = b.id => a = b

\* C24: every persisted booking has startTime strictly before endTime, and
\* from the step that persists it to the step that deletes it, its location,
\* department, attendees, startTime and endTime never change.
C24_BookingsImmutable == []StartsBeforeEnd /\ [][RowsKept]_vars

\* booking 1 is still persisted, as it was, after a second booking was
\* created and a config of its location was updated by the call of worker 2
C24_Witness ==
  /\ nextId = 3
  /\ \E b \in bookings : b.id = 1 /\ b.locationId = 2
  /\ calls[2].op = "updateDepartment"
  /\ calls[2].pc = "done"
  /\ calls[2].locationId = 2
  /\ calls[2].result.kind = "LocationDepartment"

\* at most one config row per (locationId, department)
OneRowPerPair ==
  \A r1 \in departmentConfigs : \A r2 \in departmentConfigs :
    (r1.locationId = r2.locationId /\ r1.department = r2.department)
    => r1 = r2

\* an addDepartment whose lookup finds a row ends with ConflictException
\* in that step, and the step leaves the config rows as they are
AddFindsRow ==
  \A p \in Procs :
    (/\ calls[p].pc = "addFindConfig"
     /\ Acted(p)
     /\ FindConfig(calls[p].locationId, calls[p].department) # {})
    => /\ calls'[p].pc = "done"
       /\ calls'[p].result = Conflict("is already registered")
       /\ departmentConfigs' = departmentConfigs

\* the addDepartment call of p ends in this step, and its pair has a row
\* before the step
AddEndsOnExistingRow(p) ==
  /\ calls[p].op = "addDepartment"
  /\ calls[p].pc \in {"addFindConfig", "addSave"}
  /\ calls'[p].pc = "done"
  /\ \E r \in departmentConfigs :
       r.locationId = calls[p].locationId /\ r.department = calls[p].department

\* every addDepartment call that ends for a pair that has a row ends with
\* ConflictException and leaves the rows unchanged
AddOnExistingRowIsConflict ==
  \A p \in Procs :
    AddEndsOnExistingRow(p) =>
      /\ calls'[p].result = Conflict("is already registered")
      /\ departmentConfigs' = departmentConfigs

\* C25 (as claimed): under any interleaving of addDepartment,
\* updateDepartment and removeDepartment calls there is at most one
\* LocationDepartment row per (locationId, department); an addDepartment
\* for a pair that has a row fails with ConflictException and leaves the row
\* unchanged.
C25_AddOnExistingPairIsConflict ==
  []OneRowPerPair /\ [][AddOnExistingRowIsConflict]_vars

\* an addDepartment call at its insert, for a pair that has a row, ends in
\* that step with the unique violation of the store and leaves the rows
\* unchanged
AddInsertsOnRow ==
  \A p \in Procs :
    (/\ calls[p].op = "addDepartment"
     /\ calls[p].pc = "addSave"
     /\ Acted(p)
     /\ \E r \in departmentConfigs :
          /\ r.locationId = calls[p].locationId
          /\ r.department = calls[p].department)
    => /\ calls'[p].pc = "done"
       /\ calls'[p].result = QueryFailed("23505")
       /\ departmentConfigs' = departmentConfigs

\* C25 (amended): under any interleaving of addDepartment, updateDepartment
\* and removeDepartment calls there is at most one LocationDepartment row
\* per (locationId, department); an addDepartment for a pair that has a row
\* when the call looks the pair up fails with ConflictException, one for a
\* pair that got its row between that lookup and the insert fails with the
\* unique violation of the store (QueryFailedError, code 23505), and both
\* leave the row unchanged.
C25_OneConfigPerPair ==
  []OneRowPerPair /\ [][AddFindsRow /\ AddInsertsOnRow]_vars

\* after the row of (2, EFM) was removed, two addDepartment calls for the
\* pair with different bodies raced: one row is persisted and the call of
\* worker 2 was rejected by the unique constraint
C25_Witness ==
  /\ calls[1].op = "addDepartment"
  /\ calls[1].pc = "done"
  /\ calls[1].result.kind = "LocationDepartment"
  /\ calls[2].op = "addDepartment"
  /\ calls[2].pc = "done"
  /\ calls[2].txError = "23505"
  /\ calls[1].deptDto # calls[2].deptDto
  /\ Cardinality(FindConfig(2, "EFM")) = 1

\* C26: every persisted booking references a location that exists;
\* removing a location removes its bookings and those of the descendants
\* removed with it, also when a create for it runs concurrently.
C26_BookingsReferenceLocations ==
  \A b \in bookings : b.locationId \in locations

\* location 1 was removed, and location 2 with it, while a create for
\* location 2 was between its checks and its insert: the insert was
\* rejected, and the booking persisted before is gone
C26_Witness ==
  /\ locations = {}
  /\ nextId = 3
  /\ bookings = {}
  /\ calls[1].op = "removeLocation"
  /\ calls[1].pc = "done"
  /\ calls[1].locationId = 1
  /\ CreateDone(2)
  /\ calls[2].locationId = 2
  /\ calls[2].txError = "23503"

\* C29 (as claimed): in the step that commits a booking, a config row of
\* its location and department exists, the attendees do not exceed the
\* capacity of that row and both endpoints satisfy its openTime.
C29_CommitUnderCurrentConfig ==
  [][\A p \in Procs :
       ReturnsBooking(p) =>
         \E r \in FindConfig(calls[p].locationId, calls[p].dto.department) :
           ConfigChecks(calls[p].dto, r) = ""]_vars

\* the call of p came to the open time block of create with a config whose
\* window has its start hour after its end hour
CheckedInvertedWindow(p) ==
  /\ CreateDone(p)
  /\ calls[p].deptConfig # NoConfig
  /\ ~CapacityExceeded(calls[p].dto.attendees, calls[p].deptConfig.capacity)
  /\ Truthy(calls[p].deptConfig.openTime)
  /\ parseOpenTime(calls[p].deptConfig.openTime.text).tag = "parsed"
  /\ parseOpenTime(calls[p].deptConfig.openTime.text).startHour >
       parseOpenTime(calls[p].deptConfig.openTime.text).endHour

\* C30: the hour range does not wrap past midnight; for a window whose
\* start hour is after its end hour isWithinOpenTime is false at every
\* instant, and a create under such a config is rejected because its start
\* time is outside the open hours.
C30_HourRangeDoesNotWrap ==
  \A p \in Procs :
    CheckedInvertedWindow(p) =>
      /\ calls[p].result =
           BadRequest("Booking start time is outside open hours")
      /\ \A date \in ProbeDates :
           isWithinOpenTime(calls[p].deptConfig.openTime.text, date) = "false"

\* after updateDepartment set 'Mon to Fri (6PM to 9AM)', a create from
\* Monday 09:00 to Monday 10:00 was rejected
C30_Witness ==
  \E p \in Procs :
    /\ CheckedInvertedWindow(p)
    /\ calls[p].deptConfig.openTime = Text(SixPmToNineAm)
    /\ calls[p].dto.startTime = Mon0900
    /\ calls[p].result.kind = "BadRequestException"

====
